---- MODULE Spec2Model ----
(***************************************************************************)
(* Message-normalization pipeline of post_normalizer: intake, deferred     *)
(* scheduling with cancellation, fingerprint deduplication, per-author     *)
(* quotas.  Both revisions of the pipeline are modelled, selected by rev:  *)
(*   "userbot"    = management/commands/run_userbot.py                     *)
(*   "normalizer" = management/commands/run_normalizer.py                  *)
(* Every await of the code is a step boundary: a task's action runs from   *)
(* the completion of one awaited call to the start of the next.            *)
(* Time is counted in days; a date is a proleptic Gregorian ordinal.       *)
(***************************************************************************)
EXTENDS Integers, Sequences, FiniteSets, TLC

VARIABLES
    now,        \* current date (timezone.now().date()), an ordinal
    rev,        \* which command runs
    cfg,        \* NormalizerGroup rows: chat id -> configuration
    msg,        \* the events the transport delivers: event -> message
    alive,      \* first event of a message -> the message is in the chat
    delEvt,     \* first event of a message -> a deleted event is queued
    pend,       \* self.pending_messages: set of entries, one per key
    pc,         \* task -> position in handler / delayed task
    grp,        \* task -> {} or {group captured by the task}
    ac,         \* task -> the task's in-memory AuthorPostCount object
    counts,     \* AuthorPostCount table: <<chat, user>> -> {} or {row}
    hashes,     \* PostHash table: set of rows
    rot,        \* self.button_rotation_index: chat id -> index
    invites,    \* PendingInvite table: <<chat, user>> -> {} or {row}
    out,        \* task -> how the task ended ("" while running)
    did,        \* task -> the side effects the task has performed
    reposts,    \* log of emitted reposts
    invLog,     \* log of the invite messages handed to client.send_message
    cancelled,  \* task -> a deletion event was handled during its delay
    clock,      \* seconds elapsed on the event loop's clock
    recv,       \* event -> clock value when the handler was entered
    due,        \* task -> clock value at which its asyncio.sleep ends
    snap,       \* task -> the event whose captured message it processes
    kbd,        \* task -> the keyboard it built: sequence of button labels
    swpc,       \* position of background_tasks / check_pending_invites
    swList,     \* the sweep's list of selected PendingInvite objects
    swLast,     \* the sweep's last membership query and its answer
    hin,        \* arguments of two create_hash calls
    hout,       \* the digests the two calls returned
    jobs,       \* OldPostsNormalization table: chat id -> {} or {row}
    shown       \* what the admin page last rendered for a job

vars == <<now, rev, cfg, msg, alive, delEvt, pend, pc, grp, ac, counts,
          hashes, rot, invites, out, did, reposts, invLog, cancelled,
          clock, recv, due, snap, kbd, swpc, swList, swLast, hin, hout,
          jobs, shown>>

\* the state of the invite sweep and of the bare create_hash calls
aux == <<swpc, swList, swLast, hin, hout, jobs, shown>>

\* the state of the admin pages of the batch job
batch == <<jobs, shown>>

---------------------------------------------------------------------------
(* Bounds of the model *)

NumTasks == 4        \* messages delivered in one behaviour
MaxInFlight == 2     \* delayed tasks concurrently past their timer
MaxDays == 4         \* days the clock may advance
MaxLimit == 2        \* largest configured limit_posts_day / limit_posts_week
NumConcTasks == 3    \* messages delivered in the concurrent specification
Quantum == 120       \* grid of the seconds clock
MaxClock == 240      \* seconds the clock may advance
DelaySeconds == 60   \* the groups' configured delay_seconds
MaxLen == 2          \* longest string handed to create_hash
MaxCount == 2        \* largest total_messages / processed_messages stored
SweepDays == 1       \* days the clock may advance in the invite runs

(* Program constants *)

HashDays == 3        \* PostHash.is_duplicate: timedelta(days=3)
RotationMod == 4     \* (rotation_index + 1) % 4
Thursday == 3        \* datetime._isoweek1monday: THURSDAY
DelaySpread == 120   \* delay drawn from delay_seconds .. delay_seconds + 120
SevenDays == 7       \* check_pending_invites: timedelta(days=7)
BatchSize == 100     \* OldPostsNormalization.batch_size default
Hundred == 100       \* progress_percent: 100.0

Tasks == 1..NumTasks
G1 == 1001
G2 == 1002
Groups == {G1, G2}
NoUser == 0          \* message.from_user is None / forward_from is None
UserA == 1
UserB == 2
UserF == 3
Users == {UserA, UserB, UserF}

---------------------------------------------------------------------------
(* datetime.date.isocalendar(), as CPython computes it *)

DaysBeforeYear(y) ==
    (y - 1) * 365 + ((y - 1) \div 4) - ((y - 1) \div 100) + ((y - 1) \div 400)

Jan1(y) == DaysBeforeYear(y) + 1

Years == 2023..2028

YearOf(d) == CHOOSE y \in Years : Jan1(y) <= d /\ d < Jan1(y + 1)

IsoWeek1Monday(y) ==
    LET firstday == Jan1(y)
        firstweekday == (firstday + 6) % 7
        week1monday == firstday - firstweekday
    IN  IF firstweekday > Thursday THEN week1monday + 7 ELSE week1monday

\* the first two components of isocalendar(): <<ISO year, ISO week>>
IsoCalendar(d) ==
    LET year == YearOf(d)
        w0 == IsoWeek1Monday(year)
    IN  IF d < w0
        THEN <<year - 1, ((d - IsoWeek1Monday(year - 1)) \div 7) + 1>>
        ELSE LET week == (d - w0) \div 7
             IN  IF week >= 52 /\ d >= IsoWeek1Monday(year + 1)
                 THEN <<year + 1, 1>>
                 ELSE <<year, week + 1>>

\* ordinal of 2024-12-27, a Friday of ISO week 2024-W52
StartDate == Jan1(2024) + 361

---------------------------------------------------------------------------
(* PostHash.create_hash: the pre-image that is digested.  Strings are      *)
(* sequences of characters; None and '' both give the empty component.     *)
(* SHA-256 is taken as injective, so the digest is the pre-image itself.   *)

NoneStr == <<>>

\* Python's None as an argument of create_hash: no string of characters
None == <<"None">>

\* x or ''
OrEmpty(x) == IF x = None \/ x = <<>> THEN <<>> ELSE x

\* content = f"{text or ''}|{media_file_id or ''}"
CreateHash(text, media_file_id) ==
    OrEmpty(text) \o <<"|">> \o OrEmpty(media_file_id)

---------------------------------------------------------------------------
(* Rows and objects *)

\* a NormalizerGroup row as the pipeline reads it
\* (author_vars: invite_text uses {author_name} / {author_username}, as the
\*  default template does)
Group(chat, active, ld, lw, buttons, invite, author_vars) ==
    [chat |-> chat, active |-> active, delay_seconds |-> DelaySeconds,
     limit_posts_day |-> ld,
     limit_posts_week |-> lw, buttons_count |-> buttons,
     button_rotation_texts |-> <<>>,
     invite_enabled |-> invite, author_vars |-> author_vars]

\* a transport message: kind is the populated media field ("none": no media)
Message(id, chat, sender, text, kind, fid, fwd) ==
    [id |-> id, chat |-> chat, sender |-> sender, text |-> text, kind |-> kind,
     fid |-> fid, fwd |-> fwd, super |-> TRUE, self |-> FALSE]

\* an AuthorPostCount object; fresh: built by get_or_create's create branch,
\* so last_day_reset / last_week_reset still hold the datetime default
Count(today, week, lday, lweek, fresh) ==
    [posts_today |-> today, posts_this_week |-> week,
     last_day_reset |-> lday, last_week_reset |-> lweek, fresh |-> fresh]

\* a PendingInvite row (invited_at 0: NULL)
Invitation(status, added_at, invited_at) ==
    [status |-> status, added_at |-> added_at, invited_at |-> invited_at]

NoCount == Count(0, 0, 0, 0, FALSE)

\* what save() writes to the table
Row(obj) == [obj EXCEPT !.fresh = FALSE]

TheOne(S) == CHOOSE x \in S : TRUE

---------------------------------------------------------------------------
(* Pure parts of the pipeline *)

\* normalize_message / handle_message: media_file_id for the hash
MediaFileId(r, m) ==
    IF r = "userbot"
    THEN IF m.kind \in {"photo", "video", "document"} THEN m.fid ELSE NoneStr
    ELSE IF m.kind \in {"photo", "video", "document", "audio", "voice"}
         THEN m.fid ELSE NoneStr

MessageHash(r, m) == CreateHash(m.text, MediaFileId(r, m))

IsDuplicateNoWindow(table, chat, h, today) ==
    \E row \in table : row.chat = chat /\ row.hash = h

\* PostHash.is_duplicate
IsDuplicate(table, chat, h, today) ==
    LET three_days_ago == today - HashDays
    IN  \E row \in table :
            row.chat = chat /\ row.hash = h /\ row.at >= three_days_ago

ResetIfNeededByDate(obj, today) ==
    LET o1 == IF obj.last_day_reset < today
              THEN [obj EXCEPT !.posts_today = 0, !.last_day_reset = today]
              ELSE obj
    IN  IF obj.last_week_reset < today
        THEN [o1 EXCEPT !.posts_this_week = 0, !.last_week_reset = today]
        ELSE o1

\* AuthorPostCount.reset_if_needed on an object loaded from the table
\* (the names follow the code: isocalendar()[:2] is (year, week), so
\*  current_week holds the ISO year and current_year the ISO week)
ResetIfNeeded(obj, today) ==
    LET o1 == IF obj.last_day_reset < today
              THEN [obj EXCEPT !.posts_today = 0, !.last_day_reset = today]
              ELSE obj
        current_week == IsoCalendar(today)[1]
        current_year == IsoCalendar(today)[2]
        last_reset_week == IsoCalendar(obj.last_week_reset)[1]
        last_reset_year == IsoCalendar(obj.last_week_reset)[2]
    IN  IF current_year > last_reset_year \/ current_week # last_reset_week
        THEN [o1 EXCEPT !.posts_this_week = 0, !.last_week_reset = today]
        ELSE o1

LimitVerdictZeroCounts(g, obj) ==
    IF obj.posts_today >= g.limit_posts_day
    THEN "day"
    ELSE IF obj.posts_this_week >= g.limit_posts_week
         THEN "week"
         ELSE "ok"

\* the limit check: "day", "week" or "ok"
LimitVerdict(g, obj) ==
    IF g.limit_posts_day > 0 /\ obj.posts_today >= g.limit_posts_day
    THEN "day"
    ELSE IF g.limit_posts_week > 0 /\ obj.posts_this_week >= g.limit_posts_week
         THEN "week"
         ELSE "ok"

RejectsNever(verdict) == FALSE

\* the return that follows a reached limit
Rejects(verdict) == verdict # "ok"

\* NormalizerGroup.get_button_text
GetButtonText(g, index) ==
    LET default_cycle == <<"Feedback", "Author", "Contact", "Contacts">>
        cycle == IF g.button_rotation_texts # <<>> THEN g.button_rotation_texts
                                                   ELSE default_cycle
    IN  cycle[(index % Len(cycle)) + 1]

\* PostHash.objects.create under unique_together (group, message_hash)
HashInsertRejected(table, chat, h) ==
    \E row \in table : row.chat = chat /\ row.hash = h

---------------------------------------------------------------------------
(* Task bookkeeping *)

\* the message object a task holds
Msg(t) == msg[snap[t]]

InPipeline(t) ==
    pc[t] \notin {"idle", "lookup", "sleep", "done"}

NumInFlight == Cardinality({t \in Tasks : InPipeline(t)})

\* no message is being handled
Quiescent == \A t \in Tasks : pc[t] \in {"idle", "done"}

FinishAll(t, outcome) ==
    /\ pc' = [u \in Tasks |-> IF u = t \/ pc[u] = "sleep" THEN "done" ELSE pc[u]]
    /\ out' = [out EXCEPT ![t] = outcome]

Finish(t, outcome) ==
    /\ pc' = [pc EXCEPT ![t] = "done"]
    /\ out' = [out EXCEPT ![t] = outcome]

Goto(t, where) ==
    /\ pc' = [pc EXCEPT ![t] = where]
    /\ out' = out

Mark(t, what) == did' = [did EXCEPT ![t] = @ \cup what]

---------------------------------------------------------------------------
(* handle_new_message / handle_message: intake *)

\* message_key = f"{chat_id}_{message.id}"
Key(t) == <<msg[t].chat, msg[t].id>>

\* the first event that carries the message of event t
First(t) ==
    CHOOSE u \in Tasks :
        Key(u) = Key(t) /\ \A v \in Tasks : Key(v) = Key(t) => u <= v

\* the value stored under a key: the group and the message of event t
\* (original_sender_id and forward_from_id are read from that message)
Entry(t, g) == [key |-> Key(t), group |-> g, ev |-> t]

\* random.randint(delay_seconds, delay_seconds + 120) /
\* random.uniform(delay_seconds, delay_seconds + 120), on the clock's grid
Delays(g) ==
    {d \in g.delay_seconds..(g.delay_seconds + DelaySpread) :
        (d - g.delay_seconds) % Quantum = 0}

\* the transport delivers event t; the handler runs up to the group lookup.
\* one_by_one: the event arrives after the tasks of all earlier events
\* have ended; what those tasks left in memory is then dropped.
Arrive(t, one_by_one) ==
    /\ pc[t] = "idle"
    /\ \A u \in Tasks : u < t => pc[u] # "idle"
    /\ one_by_one => \A u \in Tasks : u < t => pc[u] = "done"
    /\ pc' = [pc EXCEPT ![t] = IF msg[t].super THEN "lookup" ELSE "done"]
    /\ recv' = [recv EXCEPT ![t] = clock]
    /\ IF one_by_one
       THEN /\ alive' = [u \in Tasks |-> u = First(t) /\ (u = t \/ alive[u])]
            /\ delEvt' = [u \in Tasks |-> FALSE]
            /\ cancelled' = [u \in Tasks |-> FALSE]
            /\ out' = [u \in Tasks |-> IF u = t /\ ~msg[t].super
                                       THEN "dropped" ELSE ""]
            /\ did' = [u \in Tasks |-> {}]
            /\ ac' = [u \in Tasks |-> NoCount]
            /\ grp' = [u \in Tasks |-> {}]
            /\ snap' = [u \in Tasks |-> u]
            /\ kbd' = [u \in Tasks |-> <<>>]
       ELSE /\ alive' = IF First(t) = t THEN [alive EXCEPT ![t] = TRUE]
                                        ELSE alive
            /\ out' = [out EXCEPT ![t] = IF msg[t].super THEN "" ELSE "dropped"]
            /\ UNCHANGED <<delEvt, did, ac, grp, cancelled, snap, kbd>>
    /\ UNCHANGED aux
    /\ UNCHANGED <<clock, due>>
    /\ UNCHANGED <<now, rev, cfg, msg, pend, counts, hashes,
                   rot, invites, reposts, invLog>>

SkippedSelfIgnored(m, found) ==
    ~found \/ (m.text = NoneStr /\ m.kind = "none")

\* the three returns of the handler that follow the chat-type test
Skipped(m, found) ==
    \/ ~found
    \/ m.self
    \/ (m.text = NoneStr /\ m.kind = "none")

\* NormalizerGroup.objects.get(chat_id, is_active=True) returns; the handler
\* filters, draws the delay, stores the entry and creates the delayed task
\* (run_userbot) or goes to sleep itself (run_normalizer).
\* timed: the specification follows the clock, so the drawn delay is kept
Lookup(t, timed) ==
    /\ pc[t] = "lookup"
    /\ LET m == msg[t]
           found == m.chat \in DOMAIN cfg /\ cfg[m.chat].active
       IN  IF Skipped(m, found)
           THEN /\ Finish(t, "dropped")
                /\ UNCHANGED <<pend, grp, due>>
           ELSE /\ Goto(t, "sleep")
                /\ IF timed
                   THEN \E delay \in Delays(cfg[m.chat]) :
                            due' = [due EXCEPT ![t] = clock + delay]
                   ELSE due' = due
                /\ IF rev = "userbot"
                   THEN /\ pend' = {e \in pend : e.key # Key(t)}
                                      \cup {Entry(t, cfg[m.chat])}
                        /\ grp' = grp
                   ELSE /\ grp' = [grp EXCEPT ![t] = {cfg[m.chat]}]
                        /\ pend' = pend
    /\ UNCHANGED aux
    /\ UNCHANGED <<clock, recv, snap, kbd>>
    /\ UNCHANGED <<now, rev, cfg, msg, alive, delEvt, ac, counts, hashes,
                   rot, invites, did, reposts, invLog, cancelled>>

\* a user or admin deletes the message in the chat
UserDelete(t) ==
    /\ alive[t]
    /\ \E u \in Tasks : Key(u) = Key(t) /\ pc[u] \notin {"idle", "done"}
    /\ alive' = [alive EXCEPT ![t] = FALSE]
    /\ delEvt' = [delEvt EXCEPT ![t] = TRUE]
    /\ UNCHANGED aux
    /\ UNCHANGED <<clock, recv, due, snap, kbd>>
    /\ UNCHANGED <<now, rev, cfg, msg, pend, pc, grp, ac, counts, hashes,
                   rot, invites, out, did, reposts, invLog, cancelled>>

KeepKey(table, k) == table

\* del self.pending_messages[message_key]
WithoutKey(table, k) == {e \in table : e.key # k}

HandleDeletedForceful(t) ==
    /\ delEvt[t]
    /\ delEvt' = [delEvt EXCEPT ![t] = FALSE]
    /\ pend' = IF rev = "userbot" THEN WithoutKey(pend, Key(t)) ELSE pend
    /\ cancelled' = [u \in Tasks |->
                        \/ cancelled[u]
                        \/ (rev = "userbot" /\ Key(u) = Key(t) /\ pc[u] = "sleep")]
    /\ pc' = [u \in Tasks |-> IF Key(u) = Key(t) /\ InPipeline(u) THEN "done"
                                                                  ELSE pc[u]]
    /\ out' = [u \in Tasks |-> IF Key(u) = Key(t) /\ InPipeline(u)
                                THEN "cancelled" ELSE out[u]]
    /\ UNCHANGED aux
    /\ UNCHANGED <<clock, recv, due, snap, kbd>>
    /\ UNCHANGED <<now, rev, cfg, msg, alive, grp, ac, counts, hashes,
                   rot, invites, did, reposts, invLog>>

\* handle_message_deleted (registered by run_userbot only)
HandleDeleted(t) ==
    /\ delEvt[t]
    /\ delEvt' = [delEvt EXCEPT ![t] = FALSE]
    /\ pend' = IF rev = "userbot" THEN WithoutKey(pend, Key(t)) ELSE pend
    /\ cancelled' = [u \in Tasks |->
                        \/ cancelled[u]
                        \/ (rev = "userbot" /\ Key(u) = Key(t) /\ pc[u] = "sleep")]
    /\ UNCHANGED aux
    /\ UNCHANGED <<clock, recv, due, snap, kbd>>
    /\ UNCHANGED <<now, rev, cfg, msg, alive, pc, grp, ac, counts, hashes,
                   rot, invites, out, did, reposts, invLog>>

FireRereads(t, limit, timed) ==
    /\ pc[t] = "sleep"
    /\ NumInFlight < limit
    /\ timed => clock >= due[t]
    /\ IF rev = "userbot"
       THEN LET found == {e \in pend : e.key = Key(t)}
            IN  IF found = {}
                THEN /\ Finish(t, "cancelled")
                     /\ UNCHANGED <<pend, grp, snap>>
                ELSE /\ Goto(t, "exists")
                     /\ grp' = [grp EXCEPT ![t] = {cfg[Key(t)[1]]}]
                     /\ snap' = [snap EXCEPT ![t] = TheOne(found).ev]
                     /\ pend' = pend \ found
       ELSE /\ Goto(t, "exists")
            /\ grp' = [grp EXCEPT ![t] = {cfg[Key(t)[1]]}]
            /\ UNCHANGED <<pend, snap>>
    /\ UNCHANGED aux
    /\ UNCHANGED <<clock, recv, due, kbd>>
    /\ UNCHANGED <<now, rev, cfg, msg, alive, delEvt, ac, counts, hashes,
                   rot, invites, did, reposts, invLog, cancelled>>

FireKeepsEntry(t, limit, timed) ==
    /\ pc[t] = "sleep"
    /\ NumInFlight < limit
    /\ timed => clock >= due[t]
    /\ IF rev = "userbot"
       THEN LET found == {e \in pend : e.key = Key(t)}
            IN  IF found = {}
                THEN /\ Finish(t, "cancelled")
                     /\ UNCHANGED <<pend, grp, snap>>
                ELSE /\ Goto(t, "exists")
                     /\ grp' = [grp EXCEPT ![t] = {TheOne(found).group}]
                     /\ snap' = [snap EXCEPT ![t] = TheOne(found).ev]
                     /\ pend' = pend
       ELSE /\ Goto(t, "exists")
            /\ UNCHANGED <<pend, grp, snap>>
    /\ UNCHANGED aux
    /\ UNCHANGED <<clock, recv, due, kbd>>
    /\ UNCHANGED <<now, rev, cfg, msg, alive, delEvt, ac, counts, hashes,
                   rot, invites, did, reposts, invLog, cancelled>>

\* asyncio.sleep(delay) returns: process_message_after_delay's presence test
\* and pop (run_userbot); run_normalizer simply goes on
Fire(t, limit, timed) ==
    /\ pc[t] = "sleep"
    /\ NumInFlight < limit
    /\ timed => clock >= due[t]
    /\ IF rev = "userbot"
       THEN LET found == {e \in pend : e.key = Key(t)}
            IN  IF found = {}
                THEN /\ Finish(t, "cancelled")
                     /\ UNCHANGED <<pend, grp, snap>>
                ELSE /\ Goto(t, "exists")
                     /\ grp' = [grp EXCEPT ![t] = {TheOne(found).group}]
                     /\ snap' = [snap EXCEPT ![t] = TheOne(found).ev]
                     /\ pend' = pend \ found
       ELSE /\ Goto(t, "exists")
            /\ UNCHANGED <<pend, grp, snap>>
    /\ UNCHANGED aux
    /\ UNCHANGED <<clock, recv, due, kbd>>
    /\ UNCHANGED <<now, rev, cfg, msg, alive, delEvt, ac, counts, hashes,
                   rot, invites, did, reposts, invLog, cancelled>>

\* time passes on the event loop's clock; a pipeline run is short against
\* the clock's grid
Pass ==
    /\ clock + Quantum <= MaxClock
    /\ \A t \in Tasks : ~InPipeline(t)
    /\ clock' = clock + Quantum
    /\ UNCHANGED aux
    /\ UNCHANGED <<recv, due, snap, kbd>>
    /\ UNCHANGED <<now, rev, cfg, msg, alive, delEvt, pend, pc, grp, ac, counts,
                   hashes, rot, invites, out, did, reposts, invLog, cancelled>>

---------------------------------------------------------------------------
(* normalize_message / handle_message after the delay *)

ExistsUnchecked(t) ==
    /\ pc[t] = "exists"
    /\ Goto(t, "dup")
    /\ UNCHANGED aux
    /\ UNCHANGED <<clock, recv, due, snap, kbd>>
    /\ UNCHANGED <<now, rev, cfg, msg, alive, delEvt, pend, grp, ac, counts,
                   hashes, rot, invites, did, reposts, invLog, cancelled>>

\* 1. message.get() / client.get_messages(): raises when the message is gone
Exists(t) ==
    /\ pc[t] = "exists"
    /\ \E ok \in BOOLEAN :
        /\ ok => alive[First(t)]
        /\ IF ok THEN Goto(t, "dup") ELSE Finish(t, "notfound")
    /\ UNCHANGED aux
    /\ UNCHANGED <<clock, recv, due, snap, kbd>>
    /\ UNCHANGED <<now, rev, cfg, msg, alive, delEvt, pend, grp, ac, counts,
                   hashes, rot, invites, did, reposts, invLog, cancelled>>

\* 2. create_hash and is_duplicate
Dup(t) ==
    /\ pc[t] = "dup"
    /\ LET g == TheOne(grp[t])
           h == MessageHash(rev, Msg(t))
       IN  IF IsDuplicate(hashes, g.chat, h, now)
           THEN /\ Goto(t, "dupdel")
                /\ did' = did
           ELSE /\ Goto(t, IF Msg(t).sender # NoUser THEN "quota_get"
                                                      ELSE "delete")
                /\ Mark(t, {"passed_dup"})
    /\ UNCHANGED aux
    /\ UNCHANGED <<clock, recv, due, snap, kbd>>
    /\ UNCHANGED <<now, rev, cfg, msg, alive, delEvt, pend, grp, ac, counts,
                   hashes, rot, invites, reposts, invLog, cancelled>>

\* duplicate: message.delete(), errors logged, return
DupDelete(t) ==
    /\ pc[t] = "dupdel"
    /\ \E ok \in BOOLEAN :
        /\ alive' = IF ok THEN [alive EXCEPT ![First(t)] = FALSE] ELSE alive
        /\ did' = IF ok THEN [did EXCEPT ![t] = @ \cup {"del_orig"}] ELSE did
    /\ Finish(t, "duplicate")
    /\ UNCHANGED aux
    /\ UNCHANGED <<clock, recv, due, snap, kbd>>
    /\ UNCHANGED <<now, rev, cfg, msg, delEvt, pend, grp, ac, counts, hashes,
                   rot, invites, reposts, invLog, cancelled>>

\* 3. AuthorPostCount.objects.get_or_create
QuotaGet(t) ==
    /\ pc[t] = "quota_get"
    /\ LET g == TheOne(grp[t])
           k == <<g.chat, Msg(t).sender>>
       IN  IF counts[k] = {}
           THEN /\ counts' = [counts EXCEPT ![k] = {Count(0, 0, now, now, FALSE)}]
                /\ ac' = [ac EXCEPT ![t] = Count(0, 0, now, now, TRUE)]
                /\ Mark(t, {"row_created"})
           ELSE /\ counts' = counts
                /\ ac' = [ac EXCEPT ![t] = TheOne(counts[k])]
                /\ did' = did
    /\ Goto(t, "quota_reset")
    /\ UNCHANGED aux
    /\ UNCHANGED <<clock, recv, due, snap, kbd>>
    /\ UNCHANGED <<now, rev, cfg, msg, alive, delEvt, pend, grp, hashes, rot,
                   invites, reposts, invLog, cancelled>>

QuotaResetDeleting(t) ==
    /\ pc[t] = "quota_reset"
    /\ LET g == TheOne(grp[t])
           k == <<g.chat, Msg(t).sender>>
           obj == ResetIfNeeded(ac[t], now)
           verdict == LimitVerdict(g, obj)
       IN  IF ac[t].fresh
           THEN /\ Finish(t, "error")
                /\ UNCHANGED <<ac, counts, did, alive>>
           ELSE /\ ac' = [ac EXCEPT ![t] = obj]
                /\ counts' = [counts EXCEPT ![k] = {Row(obj)}]
                /\ IF Rejects(verdict)
                   THEN /\ Finish(t, IF verdict = "day" THEN "quota_day"
                                                        ELSE "quota_week")
                        /\ Mark(t, {"row_saved", "del_orig"})
                        /\ alive' = [alive EXCEPT ![First(t)] = FALSE]
                   ELSE /\ Goto(t, "delete")
                        /\ Mark(t, {"row_saved", "passed_quota"})
                        /\ alive' = alive
    /\ UNCHANGED aux
    /\ UNCHANGED <<clock, recv, due, snap, kbd>>
    /\ UNCHANGED <<now, rev, cfg, msg, delEvt, pend, grp, hashes, rot,
                   invites, reposts, invLog, cancelled>>

\* author_count.reset_if_needed() and the limit check that follows it.
\* On a just-created object last_day_reset is a datetime: comparing it with
\* a date raises TypeError, which leaves normalize_message.
QuotaReset(t) ==
    /\ pc[t] = "quota_reset"
    /\ LET g == TheOne(grp[t])
           k == <<g.chat, Msg(t).sender>>
           obj == ResetIfNeeded(ac[t], now)
           verdict == LimitVerdict(g, obj)
       IN  IF ac[t].fresh
           THEN /\ Finish(t, "error")
                /\ UNCHANGED <<ac, counts, did>>
           ELSE /\ ac' = [ac EXCEPT ![t] = obj]
                /\ counts' = [counts EXCEPT ![k] = {Row(obj)}]
                /\ IF Rejects(verdict)
                   THEN /\ Finish(t, IF verdict = "day" THEN "quota_day"
                                                        ELSE "quota_week")
                        /\ Mark(t, {"row_saved"})
                   ELSE /\ Goto(t, "delete")
                        /\ Mark(t, IF verdict = "ok"
                                   THEN {"row_saved", "passed_quota"}
                                   ELSE {"row_saved"})
    /\ UNCHANGED aux
    /\ UNCHANGED <<clock, recv, due, snap, kbd>>
    /\ UNCHANGED <<now, rev, cfg, msg, alive, delEvt, pend, grp, hashes, rot,
                   invites, reposts, invLog, cancelled>>

DeleteGoesOn(t) ==
    /\ pc[t] = "delete"
    /\ LET g == TheOne(grp[t])
           button == g.buttons_count >= 1 /\ Msg(t).sender # NoUser
       IN  \E ok \in BOOLEAN :
            /\ alive' = IF ok THEN [alive EXCEPT ![First(t)] = FALSE] ELSE alive
            /\ Mark(t, IF ok THEN {"del_orig"} ELSE {"del_failed"})
            /\ IF button /\ rev = "userbot"
               THEN Finish(t, "error") /\ UNCHANGED <<rot, kbd>>
               ELSE /\ Goto(t, "send")
                    /\ IF button
                       THEN /\ kbd' = [kbd EXCEPT ![t] =
                                         <<GetButtonText(g, rot[g.chat])>>]
                            /\ rot' = [rot EXCEPT ![g.chat] =
                                         (@ + 1) % RotationMod]
                       ELSE UNCHANGED <<rot, kbd>>
    /\ UNCHANGED aux
    /\ UNCHANGED <<clock, recv, due, snap>>
    /\ UNCHANGED <<now, rev, cfg, msg, delEvt, pend, grp, ac, counts, hashes,
                   invites, reposts, invLog, cancelled>>

DeleteButtonsAll(t) ==
    /\ pc[t] = "delete"
    /\ LET g == TheOne(grp[t])
           button == g.buttons_count >= 1
       IN  \E ok \in BOOLEAN :
            IF ~ok
            THEN /\ Finish(t, "delfail")
                 /\ UNCHANGED <<alive, did, rot, kbd>>
            ELSE /\ alive' = [alive EXCEPT ![First(t)] = FALSE]
                 /\ Mark(t, {"del_orig"})
                 /\ IF button /\ rev = "userbot"
                    THEN Finish(t, "error") /\ UNCHANGED <<rot, kbd>>
                    ELSE /\ Goto(t, "send")
                         /\ IF button
                            THEN /\ kbd' = [kbd EXCEPT ![t] =
                                              <<GetButtonText(g, rot[g.chat])>>]
                                 /\ rot' = [rot EXCEPT ![g.chat] =
                                              (@ + 1) % RotationMod]
                            ELSE UNCHANGED <<rot, kbd>>
    /\ UNCHANGED aux
    /\ UNCHANGED <<clock, recv, due, snap>>
    /\ UNCHANGED <<now, rev, cfg, msg, delEvt, pend, grp, ac, counts, hashes,
                   invites, reposts, invLog, cancelled>>

\* 4. message.delete(), then 5./6. the repost text and the keyboard.
\* run_userbot calls group.get_button_text_rotation, which NormalizerGroup
\* does not define (it defines get_button_text): AttributeError.
Delete(t) ==
    /\ pc[t] = "delete"
    /\ LET g == TheOne(grp[t])
           button == g.buttons_count >= 1 /\ Msg(t).sender # NoUser
       IN  \E ok \in BOOLEAN :
            IF ~ok
            THEN /\ Finish(t, "delfail")
                 /\ UNCHANGED <<alive, did, rot, kbd>>
            ELSE /\ alive' = [alive EXCEPT ![First(t)] = FALSE]
                 /\ Mark(t, {"del_orig"})
                 /\ IF button /\ rev = "userbot"
                    THEN Finish(t, "error") /\ UNCHANGED <<rot, kbd>>
                    ELSE /\ Goto(t, "send")
                         /\ IF button
                            THEN /\ kbd' = [kbd EXCEPT ![t] =
                                              <<GetButtonText(g, rot[g.chat])>>]
                                 /\ rot' = [rot EXCEPT ![g.chat] =
                                              (@ + 1) % RotationMod]
                            ELSE UNCHANGED <<rot, kbd>>
    /\ UNCHANGED aux
    /\ UNCHANGED <<clock, recv, due, snap>>
    /\ UNCHANGED <<now, rev, cfg, msg, delEvt, pend, grp, ac, counts, hashes,
                   invites, reposts, invLog, cancelled>>

SendGoesOn(t) ==
    /\ pc[t] = "send"
    /\ LET g == TheOne(grp[t])
       IN  \E ok \in BOOLEAN :
            /\ reposts' = IF ok
                          THEN reposts \cup
                                {[task |-> t, chat |-> g.chat,
                                  sender |-> Msg(t).sender,
                                  hash |-> MessageHash(rev, Msg(t)), day |-> now,
                                  nth |-> Cardinality({r \in reposts :
                                                          r.chat = g.chat}) + 1,
                                  reply_markup |-> kbd[t]]}
                          ELSE reposts
            /\ Mark(t, IF ok THEN {"repost"} ELSE {"send_failed"})
            /\ Goto(t, "savehash")
    /\ UNCHANGED aux
    /\ UNCHANGED <<clock, recv, due, snap, kbd>>
    /\ UNCHANGED <<now, rev, cfg, msg, alive, delEvt, pend, grp, ac, counts,
                   hashes, rot, invites, invLog, cancelled>>

\* 7. send_photo / send_video / ... / send_message; a failure lands in the
\* except of the repost try block ("Error reposting message")
Send(t) ==
    /\ pc[t] = "send"
    /\ LET g == TheOne(grp[t])
       IN  \E ok \in BOOLEAN :
            IF ok
            THEN /\ reposts' = reposts \cup
                        {[task |-> t, chat |-> g.chat, sender |-> Msg(t).sender,
                          hash |-> MessageHash(rev, Msg(t)), day |-> now,
                          nth |-> Cardinality({r \in reposts : r.chat = g.chat}) + 1,
                          reply_markup |-> kbd[t]]}
                 /\ Mark(t, {"repost"})
                 /\ Goto(t, "savehash")
            ELSE /\ Finish(t, "repost_error")
                 /\ Mark(t, {"send_failed"})
                 /\ reposts' = reposts
    /\ UNCHANGED aux
    /\ UNCHANGED <<clock, recv, due, snap, kbd>>
    /\ UNCHANGED <<now, rev, cfg, msg, alive, delEvt, pend, grp, ac, counts,
                   hashes, rot, invites, invLog, cancelled>>

\* 8. PostHash.objects.create; IntegrityError lands in the same except
SaveHash(t) ==
    /\ pc[t] = "savehash"
    /\ LET g == TheOne(grp[t])
           h == MessageHash(rev, Msg(t))
       IN  IF HashInsertRejected(hashes, g.chat, h)
           THEN /\ Finish(t, "repost_error")
                /\ Mark(t, {"insert_rejected"})
                /\ hashes' = hashes
           ELSE /\ hashes' = hashes \cup {[chat |-> g.chat, hash |-> h, at |-> now]}
                /\ Mark(t, {"hash"})
                /\ Goto(t, IF Msg(t).sender # NoUser THEN "savecount" ELSE "invite")
    /\ UNCHANGED aux
    /\ UNCHANGED <<clock, recv, due, snap, kbd>>
    /\ UNCHANGED <<now, rev, cfg, msg, alive, delEvt, pend, grp, ac, counts,
                   rot, invites, reposts, invLog, cancelled>>

\* 9. posts_today += 1; posts_this_week += 1; author_count.save()
SaveCount(t) ==
    /\ pc[t] = "savecount"
    /\ LET g == TheOne(grp[t])
           k == <<g.chat, Msg(t).sender>>
           obj == [ac[t] EXCEPT !.posts_today = @ + 1, !.posts_this_week = @ + 1]
       IN  /\ ac' = [ac EXCEPT ![t] = obj]
           /\ counts' = [counts EXCEPT ![k] = {Row(obj)}]
    /\ Mark(t, {"count"})
    /\ Goto(t, "invite")
    /\ UNCHANGED aux
    /\ UNCHANGED <<clock, recv, due, snap, kbd>>
    /\ UNCHANGED <<now, rev, cfg, msg, alive, delEvt, pend, grp, hashes, rot,
                   invites, reposts, invLog, cancelled>>

\* 10. `if forward_from_id and forward_from_id != original_sender_id`
ForwardDetectedAlways(m) == TRUE

ForwardDetected(m) == m.fwd # NoUser /\ m.fwd # m.sender

\* group.invite_text.format(...): run_userbot passes group_name, post_link
\* and rules_link only, so a template that uses {author_name} raises KeyError
Renders(r, g) == ~(r = "userbot" /\ g.author_vars)

InviteFatal(t) ==
    /\ pc[t] = "invite"
    /\ LET g == TheOne(grp[t])
           m == Msg(t)
       IN  IF ForwardDetected(m) /\ g.invite_enabled
           THEN \E ok \in BOOLEAN :
                 /\ ok => Renders(rev, g)
                 /\ invLog' = IF Renders(rev, g)
                               THEN invLog \cup {[task |-> t, to |-> m.fwd,
                                                  delivered |-> ok]}
                               ELSE invLog
                 /\ Mark(t, IF ok THEN {"invite_sent"} ELSE {"invite_failed"})
                 /\ IF ~ok THEN Finish(t, "repost_error")
                    ELSE IF m.sender # NoUser THEN Goto(t, "track")
                                              ELSE Finish(t, "reposted")
           ELSE /\ UNCHANGED <<invLog, did>>
                /\ IF m.sender # NoUser THEN Goto(t, "track")
                                        ELSE Finish(t, "reposted")
    /\ UNCHANGED aux
    /\ UNCHANGED <<clock, recv, due, snap, kbd>>
    /\ UNCHANGED <<now, rev, cfg, msg, alive, delEvt, pend, grp, ac, counts,
                   hashes, rot, invites, reposts, cancelled>>

\* send_invite_message: returns at once when invites are disabled; the
\* user lookup (run_normalizer), the rendering and client.send_message run
\* in a try whose except logs the error.  A failed get_users only puts the
\* placeholder name into the text; ok: client.send_message returned.
Invite(t) ==
    /\ pc[t] = "invite"
    /\ LET g == TheOne(grp[t])
           m == Msg(t)
       IN  /\ IF ForwardDetected(m) /\ g.invite_enabled
              THEN IF Renders(rev, g)
                   THEN \E ok \in BOOLEAN :
                         /\ invLog' = invLog \cup
                                {[task |-> t, to |-> m.fwd, delivered |-> ok]}
                         /\ Mark(t, IF ok THEN {"invite_sent"}
                                          ELSE {"invite_failed"})
                   ELSE /\ invLog' = invLog
                        /\ Mark(t, {"invite_failed"})
              ELSE UNCHANGED <<invLog, did>>
           /\ IF m.sender # NoUser THEN Goto(t, "track")
                                   ELSE Finish(t, "reposted")
    /\ UNCHANGED aux
    /\ UNCHANGED <<clock, recv, due, snap, kbd>>
    /\ UNCHANGED <<now, rev, cfg, msg, alive, delEvt, pend, grp, ac, counts,
                   hashes, rot, invites, reposts, cancelled>>

TrackAgain(t) ==
    /\ pc[t] = "track"
    /\ LET g == TheOne(grp[t])
           k == <<g.chat, Msg(t).sender>>
       IN  invites' = [invites EXCEPT ![k] = @ \cup {Invitation("pending", now, 0)}]
    /\ Mark(t, {"track"})
    /\ Finish(t, "reposted")
    /\ UNCHANGED aux
    /\ UNCHANGED <<clock, recv, due, snap, kbd>>
    /\ UNCHANGED <<now, rev, cfg, msg, alive, delEvt, pend, grp, ac, counts,
                   hashes, rot, reposts, invLog, cancelled>>

TrackResets(t) ==
    /\ pc[t] = "track"
    /\ LET g == TheOne(grp[t])
           k == <<g.chat, Msg(t).sender>>
       IN  invites' = [invites EXCEPT ![k] = {Invitation("pending", now, 0)}]
    /\ Mark(t, {"track"})
    /\ Finish(t, "reposted")
    /\ UNCHANGED aux
    /\ UNCHANGED <<clock, recv, due, snap, kbd>>
    /\ UNCHANGED <<now, rev, cfg, msg, alive, delEvt, pend, grp, ac, counts,
                   hashes, rot, reposts, invLog, cancelled>>

\* 11. track_author_for_invite: PendingInvite.objects.get_or_create
Track(t) ==
    /\ pc[t] = "track"
    /\ LET g == TheOne(grp[t])
           k == <<g.chat, Msg(t).sender>>
       IN  invites' = IF invites[k] = {}
                      THEN [invites EXCEPT ![k] =
                              {Invitation("pending", now, 0)}]
                      ELSE invites
    /\ Mark(t, {"track"})
    /\ Finish(t, "reposted")
    /\ UNCHANGED aux
    /\ UNCHANGED <<clock, recv, due, snap, kbd>>
    /\ UNCHANGED <<now, rev, cfg, msg, alive, delEvt, pend, grp, ac, counts,
                   hashes, rot, reposts, invLog, cancelled>>

---------------------------------------------------------------------------
(* background_tasks / check_pending_invites (run_userbot only) *)

\* ChatMember.status as the transport reports it
ChatMemberStatus == {"creator", "administrator", "member", "left"}

\* get_chat_member raised (the user is not a participant, or the call failed)
Raised == "raised"

StatusListedAny(status) == TRUE

\* chat_member.status in ['member', 'administrator', 'creator']
StatusListed(status) == status \in {"member", "administrator", "creator"}

AllKeys ==
    <<<<G1, UserA>>, <<G1, UserB>>, <<G1, UserF>>,
      <<G2, UserA>>, <<G2, UserB>>, <<G2, UserF>>>>

SelectedAnyAge(table, today) ==
    {k \in DOMAIN table :
        \E row \in table[k] : row.status = "pending"}

\* PendingInvite.objects.filter(status='pending', added_at__lte=seven_days_ago)
Selected(table, today) ==
    {k \in DOMAIN table :
        \E row \in table[k] :
            row.status = "pending" /\ row.added_at <= today - SevenDays}

\* list(...): the selected rows as objects, in the table's order
Listed(table, today) ==
    LET Chosen(k) == k \in Selected(table, today)
        keys == SelectSeq(AllKeys, Chosen)
    IN  [i \in 1..Len(keys) |-> [key |-> keys[i], row |-> TheOne(table[keys[i]])]]

\* asyncio.sleep(3600) returns in background_tasks
SweepWake ==
    /\ rev = "userbot"
    /\ swpc = "sleep"
    /\ swpc' = "select"
    /\ UNCHANGED <<swList, swLast, hin, hout>>
    /\ UNCHANGED batch
    /\ UNCHANGED <<clock, recv, due, snap, kbd>>
    /\ UNCHANGED <<now, rev, cfg, msg, alive, delEvt, pend, pc, grp, ac, counts,
                   hashes, rot, invites, out, did, reposts, invLog, cancelled>>

SweepSelectFatal ==
    /\ swpc = "select"
    /\ \E ok \in BOOLEAN :
        IF ok
        THEN /\ swList' = Listed(invites, now)
             /\ swpc' = IF Listed(invites, now) = <<>> THEN "sleep" ELSE "query"
        ELSE /\ swList' = <<>>
             /\ swpc' = "off"
    /\ UNCHANGED <<swLast, hin, hout>>
    /\ UNCHANGED batch
    /\ UNCHANGED <<clock, recv, due, snap, kbd>>
    /\ UNCHANGED <<now, rev, cfg, msg, alive, delEvt, pend, pc, grp, ac, counts,
                   hashes, rot, invites, out, did, reposts, invLog, cancelled>>

\* the query of check_pending_invites is evaluated; an exception of the
\* store leaves check_pending_invites, is logged by background_tasks, and
\* the loop goes to sleep again
SweepSelect ==
    /\ swpc = "select"
    /\ \E ok \in BOOLEAN :
        IF ok
        THEN /\ swList' = Listed(invites, now)
             /\ swpc' = IF Listed(invites, now) = <<>> THEN "sleep" ELSE "query"
        ELSE /\ swList' = <<>>
             /\ swpc' = "sleep"
    /\ UNCHANGED <<swLast, hin, hout>>
    /\ UNCHANGED batch
    /\ UNCHANGED <<clock, recv, due, snap, kbd>>
    /\ UNCHANGED <<now, rev, cfg, msg, alive, delEvt, pend, pc, grp, ac, counts,
                   hashes, rot, invites, out, did, reposts, invLog, cancelled>>

\* one pass of the for loop: get_chat_member answers or raises; the object
\* is saved with status joined when the answer's status is in the list; an
\* exception is passed over
SweepQuery ==
    /\ swpc = "query"
    /\ LET invite == Head(swList)
       IN  \E answer \in ChatMemberStatus \cup {Raised} :
            /\ swLast' = [key |-> invite.key, answer |-> answer, at |-> now]
            /\ invites' = IF answer # Raised /\ StatusListed(answer)
                           THEN [invites EXCEPT ![invite.key] =
                                    {[invite.row EXCEPT !.status = "joined"]}]
                           ELSE invites
    /\ swList' = Tail(swList)
    /\ swpc' = IF Tail(swList) = <<>> THEN "return" ELSE "query"
    /\ UNCHANGED <<hin, hout>>
    /\ UNCHANGED batch
    /\ UNCHANGED <<clock, recv, due, snap, kbd>>
    /\ UNCHANGED <<now, rev, cfg, msg, alive, delEvt, pend, pc, grp, ac, counts,
                   hashes, rot, out, did, reposts, invLog, cancelled>>

\* check_pending_invites returns to the loop of background_tasks, which
\* goes to sleep again
SweepReturn ==
    /\ swpc = "return"
    /\ swpc' = "sleep"
    /\ swLast' = <<>>
    /\ UNCHANGED <<swList, hin, hout>>
    /\ UNCHANGED batch
    /\ UNCHANGED <<clock, recv, due, snap, kbd>>
    /\ UNCHANGED <<now, rev, cfg, msg, alive, delEvt, pend, pc, grp, ac, counts,
                   hashes, rot, invites, out, did, reposts, invLog, cancelled>>

\* a day passes (quiet: only while no message is being handled)
Tick(days, quiet) ==
    /\ now < StartDate + days
    /\ quiet => \A t \in Tasks : pc[t] \in {"idle", "done"}
    /\ now' = now + 1
    /\ UNCHANGED aux
    /\ UNCHANGED <<clock, recv, due, snap, kbd>>
    /\ UNCHANGED <<rev, cfg, msg, alive, delEvt, pend, pc, grp, ac, counts,
                   hashes, rot, invites, out, did, reposts, invLog, cancelled>>

---------------------------------------------------------------------------
(* Initial states *)

TextA == <<"a">>
TextB == <<"b">>

\* the messages of the concurrent runs: one author, one group; two of the
\* messages carry the same content
ConcMessage(t) ==
    Message(t, G1, UserA, IF t % 3 = 0 THEN TextB ELSE TextA, "none", NoneStr, NoUser)

ConcTable == [t \in Tasks |-> ConcMessage(t)]

\* the messages of the sequential runs: the same content throughout, ...
SeqMessageA(t) ==
    Message(t, G1, UserA, TextA, "none", NoneStr, NoUser)

\* ... every third message different, ...
SeqMessageC(t) ==
    Message(t, G1, UserA, IF t % 3 = 0 THEN TextB ELSE TextA, "none", NoneStr, NoUser)

\* ... and a mix of groups, senders, forwards and media
SeqMessageB(t) ==
    CASE t % 4 = 1 -> Message(t, G2, NoUser, TextA, "photo", <<"p">>, NoUser)
      [] t % 4 = 2 -> Message(t, G1, NoUser, TextA, "photo", <<"p">>, UserF)
      [] t % 4 = 3 -> Message(t, G1, UserB, TextA, "photo", <<"q">>, NoUser)
      [] OTHER     -> Message(t, G1, UserB, TextB, "photo", <<"p">>, UserF)

\* events the intake filter has to turn away: a chat that is no supergroup,
\* a message of the account itself, a service message, a deactivated group
SeqMessageD(t) ==
    CASE t % 4 = 1 -> [Message(t, G1, UserA, TextA, "none", NoneStr, NoUser)
                          EXCEPT !.super = FALSE]
      [] t % 4 = 2 -> [Message(t, G1, UserB, TextA, "none", NoneStr, NoUser)
                          EXCEPT !.self = TRUE]
      [] t % 4 = 3 -> Message(t, G1, UserA, NoneStr, "none", NoneStr, NoUser)
      [] OTHER     -> Message(t, G2, UserA, TextA, "none", NoneStr, NoUser)

\* one author in one group: a text, a photo without caption, another text,
\* the first text again
SeqMessageE(t) ==
    CASE t % 4 = 1 -> Message(t, G1, UserA, TextA, "none", NoneStr, NoUser)
      [] t % 4 = 2 -> Message(t, G1, UserA, NoneStr, "photo", <<"p">>, NoUser)
      [] t % 4 = 3 -> Message(t, G1, UserA, TextB, "none", NoneStr, NoUser)
      [] OTHER     -> Message(t, G1, UserA, TextA, "none", NoneStr, NoUser)

\* the transport delivers the update of a message twice: events 2k-1 and 2k
\* carry the same message, so they have the same key; all messages are of one
\* author and have the same text
DelayMessage(t) ==
    Message(2 * ((t + 1) \div 2) - 1, G1, UserA, TextA, "none", NoneStr, NoUser)

MixTables ==
    {[t \in Tasks |-> SeqMessageD(t)], [t \in Tasks |-> SeqMessageE(t)]}

\* button_rotation_texts: the default (empty list) and a list of three
RotationLists == {<<>>, <<"x", "y", "z">>}

SeqTables ==
    {[t \in Tasks |-> SeqMessageA(t)], [t \in Tasks |-> SeqMessageB(t)],
     [t \in Tasks |-> SeqMessageC(t)]}

\* the sweep task sleeps, nothing queried, no bare create_hash call made,
\* no batch job stored
InitAux ==
    /\ swpc = "sleep"
    /\ swList = <<>>
    /\ swLast = <<>>
    /\ hin = <<>>
    /\ hout = <<>>
    /\ jobs = [g \in Groups |-> {}]
    /\ shown = <<>>

InitTasks ==
    /\ now = StartDate
    /\ alive = [t \in Tasks |-> FALSE]
    /\ delEvt = [t \in Tasks |-> FALSE]
    /\ pend = {}
    /\ pc = [t \in Tasks |-> "idle"]
    /\ grp = [t \in Tasks |-> {}]
    /\ ac = [t \in Tasks |-> NoCount]
    /\ counts = [k \in Groups \X Users |-> {}]
    /\ hashes = {}
    /\ rot = [g \in Groups |-> 0]
    /\ invites = [k \in Groups \X Users |-> {}]
    /\ out = [t \in Tasks |-> ""]
    /\ did = [t \in Tasks |-> {}]
    /\ reposts = {}
    /\ invLog = {}
    /\ cancelled = [t \in Tasks |-> FALSE]
    /\ clock = 0
    /\ recv = [t \in Tasks |-> 0]
    /\ due = [t \in Tasks |-> 0]
    /\ snap = [t \in Tasks |-> t]
    /\ kbd = [t \in Tasks |-> <<>>]

InitCommon == InitTasks /\ InitAux

\* concurrent runs of run_userbot, daily limit 1, with or without button
Init ==
    /\ InitCommon
    /\ rev = "userbot"
    /\ msg = ConcTable
    /\ \E b \in {0, 1} :
        cfg = [g \in Groups |-> Group(g, TRUE, 1, 0, b, TRUE, TRUE)]

\* sequential runs of either command under a range of configurations
InitSeq ==
    /\ InitCommon
    /\ rev \in {"userbot", "normalizer"}
    /\ msg \in SeqTables
    /\ \E ld \in 0..MaxLimit, lw \in 0..MaxLimit, b \in {0, 1} :
        cfg = [g \in Groups |-> Group(g, TRUE, ld, lw, b, TRUE, TRUE)]

\* sequential runs of either command started with a stored AuthorPostCount
\* row of the author, group G2 deactivated, no limits, one button
InitMix ==
    /\ now = StartDate
    /\ rev \in {"userbot", "normalizer"}
    /\ msg \in MixTables
    /\ \E texts \in RotationLists :
        cfg = [g \in Groups |->
                [Group(g, g = G1, 0, 0, 1, TRUE, TRUE)
                    EXCEPT !.button_rotation_texts = texts]]
    /\ counts = [k \in Groups \X Users |->
                    IF k = <<G1, UserA>>
                    THEN {Count(1, 1, StartDate, StartDate, FALSE)}
                    ELSE {}]
    /\ alive = [t \in Tasks |-> FALSE]
    /\ delEvt = [t \in Tasks |-> FALSE]
    /\ pend = {}
    /\ pc = [t \in Tasks |-> "idle"]
    /\ grp = [t \in Tasks |-> {}]
    /\ ac = [t \in Tasks |-> NoCount]
    /\ hashes = {}
    /\ rot = [g \in Groups |-> 0]
    /\ invites = [k \in Groups \X Users |-> {}]
    /\ out = [t \in Tasks |-> ""]
    /\ did = [t \in Tasks |-> {}]
    /\ reposts = {}
    /\ invLog = {}
    /\ cancelled = [t \in Tasks |-> FALSE]
    /\ clock = 0
    /\ recv = [t \in Tasks |-> 0]
    /\ due = [t \in Tasks |-> 0]
    /\ snap = [t \in Tasks |-> t]
    /\ kbd = [t \in Tasks |-> <<>>]
    /\ InitAux

\* concurrent runs of either command that follow the seconds clock
InitDelay ==
    /\ InitCommon
    /\ rev \in {"userbot", "normalizer"}
    /\ msg = [t \in Tasks |-> DelayMessage(t)]
    /\ cfg = [g \in Groups |-> Group(g, TRUE, 0, 0, 0, TRUE, TRUE)]

---------------------------------------------------------------------------
(* Specifications *)

FireConc(t) == Fire(t, MaxInFlight, FALSE)

FireSeq(t) == Fire(t, 1, FALSE)

LookupUntimed(t) == Lookup(t, FALSE)

TickConc == Tick(1, FALSE)

TickSeq == Tick(MaxDays, TRUE)

ArriveConc(t) == t <= NumConcTasks /\ Arrive(t, FALSE)

ArriveSeq(t) == Arrive(t, TRUE)

Step(t) ==
    \/ LookupUntimed(t)
    \/ UserDelete(t)
    \/ HandleDeleted(t)
    \/ Exists(t)
    \/ Dup(t)
    \/ DupDelete(t)
    \/ QuotaGet(t)
    \/ QuotaReset(t)
    \/ Delete(t)
    \/ Send(t)
    \/ SaveHash(t)
    \/ SaveCount(t)
    \/ Invite(t)
    \/ Track(t)

Next ==
    \/ \E t \in Tasks : Step(t) \/ ArriveConc(t) \/ FireConc(t)
    \/ TickConc

Spec == Init /\ [][Next]_vars

NextSeq ==
    \/ \E t \in Tasks : Step(t) \/ ArriveSeq(t) \/ FireSeq(t)
    \/ TickSeq

SpecSeq == InitSeq /\ [][NextSeq]_vars

SpecMix == InitMix /\ [][NextSeq]_vars

LookupTimed(t) == Lookup(t, TRUE)

FireTimed(t) == Fire(t, 1, TRUE)

StepAfterFire(t) ==
    \/ UserDelete(t)
    \/ HandleDeleted(t)
    \/ Exists(t)
    \/ Dup(t)
    \/ DupDelete(t)
    \/ QuotaGet(t)
    \/ QuotaReset(t)
    \/ Delete(t)
    \/ Send(t)
    \/ SaveHash(t)
    \/ SaveCount(t)
    \/ Invite(t)
    \/ Track(t)

NextDelay ==
    \/ \E t \in Tasks : ArriveConc(t) \/ LookupTimed(t) \/ FireTimed(t)
    \/ \E t \in Tasks : StepAfterFire(t)
    \/ Pass

SpecDelay == InitDelay /\ [][NextDelay]_vars

\* runs of run_userbot in which every message is delivered twice, without
\* the seconds clock: a timer ends at any time
InitTimers ==
    /\ InitCommon
    /\ rev = "userbot"
    /\ msg = [t \in Tasks |-> DelayMessage(t)]
    /\ cfg = [g \in Groups |-> Group(g, TRUE, 0, 0, 0, TRUE, TRUE)]

Timer(t) == FireSeq(t)

Pipeline(t) ==
    \/ Exists(t)
    \/ Dup(t)
    \/ DupDelete(t)
    \/ QuotaGet(t)
    \/ QuotaReset(t)
    \/ Delete(t)
    \/ Send(t)
    \/ SaveHash(t)
    \/ SaveCount(t)
    \/ Invite(t)
    \/ Track(t)

NextTimers ==
    \/ \E t \in Tasks : ArriveConc(t) \/ LookupUntimed(t) \/ Timer(t)
    \/ \E t \in Tasks : UserDelete(t) \/ HandleDeleted(t)
    \/ \E t \in Tasks : Pipeline(t)

\* the event loop runs every callback that is ready: a timer that has been
\* set ends, and each call a task awaits returns or raises
SpecTimers ==
    /\ InitTimers
    /\ [][NextTimers]_vars
    /\ \A t \in Tasks : WF_vars(Timer(t)) /\ WF_vars(Pipeline(t))

\* the media runs: one author in one group sends media of one kind: a file
\* without caption, a different file without caption, the first file again,
\* and the second file with a caption
MediaKinds ==
    {"photo", "video", "document", "audio", "voice", "video_note", "sticker"}

MediaMessage(kind, t) ==
    CASE t % 4 = 1 -> Message(t, G1, UserA, NoneStr, kind, <<"p">>, NoUser)
      [] t % 4 = 2 -> Message(t, G1, UserA, NoneStr, kind, <<"q">>, NoUser)
      [] t % 4 = 3 -> Message(t, G1, UserA, NoneStr, kind, <<"p">>, NoUser)
      [] OTHER     -> Message(t, G1, UserA, TextA, kind, <<"q">>, NoUser)

\* sequential runs of either command, no limits, no buttons, a stored
\* AuthorPostCount row of the author
InitMedia ==
    /\ now = StartDate
    /\ rev \in {"userbot", "normalizer"}
    /\ \E kind \in MediaKinds : msg = [t \in Tasks |-> MediaMessage(kind, t)]
    /\ cfg = [g \in Groups |-> Group(g, TRUE, 0, 0, 0, TRUE, TRUE)]
    /\ counts = [k \in Groups \X Users |->
                    IF k = <<G1, UserA>>
                    THEN {Count(0, 0, StartDate, StartDate, FALSE)}
                    ELSE {}]
    /\ alive = [t \in Tasks |-> FALSE]
    /\ delEvt = [t \in Tasks |-> FALSE]
    /\ pend = {}
    /\ pc = [t \in Tasks |-> "idle"]
    /\ grp = [t \in Tasks |-> {}]
    /\ ac = [t \in Tasks |-> NoCount]
    /\ hashes = {}
    /\ rot = [g \in Groups |-> 0]
    /\ invites = [k \in Groups \X Users |-> {}]
    /\ out = [t \in Tasks |-> ""]
    /\ did = [t \in Tasks |-> {}]
    /\ reposts = {}
    /\ invLog = {}
    /\ cancelled = [t \in Tasks |-> FALSE]
    /\ clock = 0
    /\ recv = [t \in Tasks |-> 0]
    /\ due = [t \in Tasks |-> 0]
    /\ snap = [t \in Tasks |-> t]
    /\ kbd = [t \in Tasks |-> <<>>]
    /\ InitAux

SpecMedia == InitMedia /\ [][NextSeq]_vars

\* the invite runs: one poster, UserB, in one group; a forward of UserF's
\* content, a forward by the channel itself, a forward of the poster's own
\* content, a message that is no forward
TextC == <<"c">>
TextD == <<"d">>

InviteMessage(t) ==
    CASE t % 4 = 1 -> Message(t, G1, UserB, TextA, "none", NoneStr, UserF)
      [] t % 4 = 2 -> Message(t, G1, NoUser, TextB, "none", NoneStr, UserF)
      [] t % 4 = 3 -> Message(t, G1, UserB, TextC, "none", NoneStr, UserB)
      [] OTHER     -> Message(t, G1, UserB, TextD, "none", NoneStr, NoUser)

\* the statuses of PendingInvite.STATUS_CHOICES
Statuses == {"pending", "invited", "joined", "skipped"}

\* sequential runs of either command with invites enabled or disabled, no
\* limits, no buttons, a stored AuthorPostCount row of the poster, and stored
\* PendingInvite rows (PendingInviteAdmin lets status and invited_at be
\* edited): an old pending row of UserF, a younger pending row of UserA, and
\* no row or an old row in any status of the poster
InitInvite ==
    /\ now = StartDate
    /\ rev \in {"userbot", "normalizer"}
    /\ msg = [t \in Tasks |-> InviteMessage(t)]
    /\ \E enabled \in BOOLEAN, author_vars \in BOOLEAN :
        /\ rev = "normalizer" => author_vars
        /\ cfg = [g \in Groups |-> Group(g, TRUE, 0, 0, 0, enabled, author_vars)]
    /\ counts = [k \in Groups \X Users |->
                    IF k = <<G1, UserB>>
                    THEN {Count(0, 0, StartDate, StartDate, FALSE)}
                    ELSE {}]
    /\ \E stored \in {{}} \cup {{Invitation(st, StartDate - SevenDays - 1,
                                              IF st = "pending" THEN 0
                                              ELSE StartDate - 1)} :
                                  st \in Statuses} :
        invites = [k \in Groups \X Users |->
                    CASE k = <<G1, UserF>> ->
                            {Invitation("pending", StartDate - SevenDays - 1, 0)}
                      [] k = <<G1, UserA>> ->
                            {Invitation("pending", StartDate - SevenDays + 1, 0)}
                      [] k = <<G1, UserB>> -> stored
                      [] OTHER -> {}]
    /\ alive = [t \in Tasks |-> FALSE]
    /\ delEvt = [t \in Tasks |-> FALSE]
    /\ pend = {}
    /\ pc = [t \in Tasks |-> "idle"]
    /\ grp = [t \in Tasks |-> {}]
    /\ ac = [t \in Tasks |-> NoCount]
    /\ hashes = {}
    /\ rot = [g \in Groups |-> 0]
    /\ out = [t \in Tasks |-> ""]
    /\ did = [t \in Tasks |-> {}]
    /\ reposts = {}
    /\ invLog = {}
    /\ cancelled = [t \in Tasks |-> FALSE]
    /\ clock = 0
    /\ recv = [t \in Tasks |-> 0]
    /\ due = [t \in Tasks |-> 0]
    /\ snap = [t \in Tasks |-> t]
    /\ kbd = [t \in Tasks |-> <<>>]
    /\ InitAux

TickInvite == Tick(SweepDays, TRUE)

\* the sweep's steps, taken while no message is being handled
SweepQuiet ==
    \/ Quiescent /\ SweepWake
    \/ Quiescent /\ SweepSelect
    \/ Quiescent /\ SweepQuery
    \/ Quiescent /\ SweepReturn

\* the steps of a message that nobody deletes and that is no duplicate,
\* taken while the sweep task sleeps
StepInvite(t) ==
    \/ swpc = "sleep" /\ ArriveSeq(t)
    \/ swpc = "sleep" /\ LookupUntimed(t)
    \/ swpc = "sleep" /\ FireSeq(t)
    \/ swpc = "sleep" /\ Exists(t)
    \/ swpc = "sleep" /\ Dup(t)
    \/ swpc = "sleep" /\ QuotaGet(t)
    \/ swpc = "sleep" /\ QuotaReset(t)
    \/ swpc = "sleep" /\ Delete(t)
    \/ swpc = "sleep" /\ Send(t)
    \/ swpc = "sleep" /\ SaveHash(t)
    \/ swpc = "sleep" /\ SaveCount(t)
    \/ swpc = "sleep" /\ Invite(t)
    \/ swpc = "sleep" /\ Track(t)

NextInvite ==
    \/ \E t \in Tasks : StepInvite(t)
    \/ TickInvite
    \/ SweepQuiet

SpecInvite == InitInvite /\ [][NextInvite]_vars

\* the channel runs: posts of the channel itself (no sender): a text, the
\* same text again, a forward of UserF's content; and a message of a sender
ChannelMessage(t) ==
    CASE t % 4 = 1 -> Message(t, G1, NoUser, TextA, "none", NoneStr, NoUser)
      [] t % 4 = 2 -> Message(t, G1, NoUser, TextA, "none", NoneStr, NoUser)
      [] t % 4 = 3 -> Message(t, G1, NoUser, TextB, "none", NoneStr, UserF)
      [] OTHER     -> Message(t, G1, UserA, TextC, "none", NoneStr, NoUser)

\* sequential runs of either command with or without a daily limit of 1
\* and a button, and a stored AuthorPostCount row of the sender that has
\* reached that limit
InitChannel ==
    /\ now = StartDate
    /\ rev \in {"userbot", "normalizer"}
    /\ msg = [t \in Tasks |-> ChannelMessage(t)]
    /\ \E ld \in {0, 1}, b \in {0, 1} :
        cfg = [g \in Groups |-> Group(g, TRUE, ld, 0, b, TRUE, TRUE)]
    /\ counts = [k \in Groups \X Users |->
                    IF k = <<G1, UserA>>
                    THEN {Count(1, 1, StartDate, StartDate, FALSE)}
                    ELSE {}]
    /\ alive = [t \in Tasks |-> FALSE]
    /\ delEvt = [t \in Tasks |-> FALSE]
    /\ pend = {}
    /\ pc = [t \in Tasks |-> "idle"]
    /\ grp = [t \in Tasks |-> {}]
    /\ ac = [t \in Tasks |-> NoCount]
    /\ hashes = {}
    /\ rot = [g \in Groups |-> 0]
    /\ invites = [k \in Groups \X Users |-> {}]
    /\ out = [t \in Tasks |-> ""]
    /\ did = [t \in Tasks |-> {}]
    /\ reposts = {}
    /\ invLog = {}
    /\ cancelled = [t \in Tasks |-> FALSE]
    /\ clock = 0
    /\ recv = [t \in Tasks |-> 0]
    /\ due = [t \in Tasks |-> 0]
    /\ snap = [t \in Tasks |-> t]
    /\ kbd = [t \in Tasks |-> <<>>]
    /\ InitAux

SpecChannel == InitChannel /\ [][NextSeq]_vars

\* the change form of NormalizerGroupAdmin is saved for a group while a
\* message of that group waits for its timer: is_active, limit_posts_day
\* and buttons_count are edited
ChangeGroup(g) ==
    /\ \E t \in Tasks : pc[t] = "sleep" /\ msg[t].chat = g
    /\ \E active \in BOOLEAN, ld \in {0, 1}, b \in {0, 1} :
        cfg' = [cfg EXCEPT ![g] = [@ EXCEPT !.active = active,
                                            !.limit_posts_day = ld,
                                            !.buttons_count = b]]
    /\ UNCHANGED aux
    /\ UNCHANGED <<clock, recv, due, snap, kbd>>
    /\ UNCHANGED <<now, rev, msg, alive, delEvt, pend, pc, grp, ac, counts,
                   hashes, rot, invites, out, did, reposts, invLog, cancelled>>

\* sequential runs of either command on messages of one author with a
\* stored AuthorPostCount row, the group active, with or without a daily
\* limit of 1, no button; the configuration is edited during the delays
InitConfig ==
    /\ now = StartDate
    /\ rev \in {"userbot", "normalizer"}
    /\ msg = [t \in Tasks |-> SeqMessageC(t)]
    /\ \E ld \in {0, 1} :
        cfg = [g \in Groups |-> Group(g, TRUE, ld, 0, 0, TRUE, TRUE)]
    /\ counts = [k \in Groups \X Users |->
                    IF k = <<G1, UserA>>
                    THEN {Count(0, 0, StartDate, StartDate, FALSE)}
                    ELSE {}]
    /\ alive = [t \in Tasks |-> FALSE]
    /\ delEvt = [t \in Tasks |-> FALSE]
    /\ pend = {}
    /\ pc = [t \in Tasks |-> "idle"]
    /\ grp = [t \in Tasks |-> {}]
    /\ ac = [t \in Tasks |-> NoCount]
    /\ hashes = {}
    /\ rot = [g \in Groups |-> 0]
    /\ invites = [k \in Groups \X Users |-> {}]
    /\ out = [t \in Tasks |-> ""]
    /\ did = [t \in Tasks |-> {}]
    /\ reposts = {}
    /\ invLog = {}
    /\ cancelled = [t \in Tasks |-> FALSE]
    /\ clock = 0
    /\ recv = [t \in Tasks |-> 0]
    /\ due = [t \in Tasks |-> 0]
    /\ snap = [t \in Tasks |-> t]
    /\ kbd = [t \in Tasks |-> <<>>]
    /\ InitAux

NextConfig ==
    \/ \E t \in Tasks : ArriveSeq(t) \/ LookupUntimed(t) \/ FireSeq(t)
    \/ \E t \in Tasks : Pipeline(t)
    \/ \E g \in Groups : ChangeGroup(g)

SpecConfig == InitConfig /\ [][NextConfig]_vars

\* runs of run_userbot in which the sweep task and the message tasks take
\* their steps in any order: messages of one author handled one after
\* another, two stored pending rows old enough to be swept
InitSweep ==
    /\ now = StartDate
    /\ rev = "userbot"
    /\ msg = [t \in Tasks |-> SeqMessageA(t)]
    /\ cfg = [g \in Groups |-> Group(g, TRUE, 0, 0, 0, TRUE, FALSE)]
    /\ counts = [k \in Groups \X Users |->
                    IF k = <<G1, UserA>>
                    THEN {Count(0, 0, StartDate, StartDate, FALSE)}
                    ELSE {}]
    /\ invites = [k \in Groups \X Users |->
                    IF k \in {<<G1, UserB>>, <<G1, UserF>>}
                    THEN {Invitation("pending", StartDate - SevenDays, 0)}
                    ELSE {}]
    /\ alive = [t \in Tasks |-> FALSE]
    /\ delEvt = [t \in Tasks |-> FALSE]
    /\ pend = {}
    /\ pc = [t \in Tasks |-> "idle"]
    /\ grp = [t \in Tasks |-> {}]
    /\ ac = [t \in Tasks |-> NoCount]
    /\ hashes = {}
    /\ rot = [g \in Groups |-> 0]
    /\ out = [t \in Tasks |-> ""]
    /\ did = [t \in Tasks |-> {}]
    /\ reposts = {}
    /\ invLog = {}
    /\ cancelled = [t \in Tasks |-> FALSE]
    /\ clock = 0
    /\ recv = [t \in Tasks |-> 0]
    /\ due = [t \in Tasks |-> 0]
    /\ snap = [t \in Tasks |-> t]
    /\ kbd = [t \in Tasks |-> <<>>]
    /\ InitAux

\* the steps of a message task
StepMessage(t) ==
    \/ ArriveSeq(t)
    \/ LookupUntimed(t)
    \/ FireSeq(t)
    \/ Exists(t)
    \/ Dup(t)
    \/ DupDelete(t)
    \/ QuotaGet(t)
    \/ QuotaReset(t)
    \/ Delete(t)
    \/ Send(t)
    \/ SaveHash(t)
    \/ SaveCount(t)
    \/ Invite(t)
    \/ Track(t)

NextSweep ==
    \/ \E t \in Tasks : StepMessage(t)
    \/ SweepWake
    \/ SweepSelect
    \/ SweepQuery
    \/ SweepReturn

\* the event loop runs every callback that is ready: the timer of the sweep
\* task ends, and each call the sweep awaits returns or raises
SpecSweep ==
    /\ InitSweep
    /\ [][NextSweep]_vars
    /\ WF_vars(SweepWake)
    /\ WF_vars(SweepSelect)
    /\ WF_vars(SweepQuery)
    /\ WF_vars(SweepReturn)

\* create_hash alone: two calls, each with a text and a media_file_id that
\* is None or a string of at most MaxLen characters, '|' among them
Alphabet == {"a", "|"}

Strings == UNION {[1..n -> Alphabet] : n \in 0..MaxLen}

Arguments == [text : Strings \cup {None}, media : Strings \cup {None}]

InitHash ==
    /\ InitTasks
    /\ rev = "userbot"
    /\ msg = [t \in Tasks |-> SeqMessageA(t)]
    /\ cfg = [g \in Groups |-> Group(g, TRUE, 0, 0, 0, TRUE, TRUE)]
    /\ swpc = "sleep"
    /\ swList = <<>>
    /\ swLast = <<>>
    /\ hin \in Arguments \X Arguments
    /\ hout = <<>>
    /\ jobs = [g \in Groups |-> {}]
    /\ shown = <<>>

\* both calls return
Digest ==
    /\ hout = <<>>
    /\ hin # <<>>
    /\ hout' = <<CreateHash(hin[1].text, hin[1].media),
                 CreateHash(hin[2].text, hin[2].media)>>
    /\ UNCHANGED <<swpc, swList, swLast, hin>>
    /\ UNCHANGED batch
    /\ UNCHANGED <<clock, recv, due, snap, kbd>>
    /\ UNCHANGED <<now, rev, cfg, msg, alive, delEvt, pend, pc, grp, ac, counts,
                   hashes, rot, invites, out, did, reposts, invLog, cancelled>>

SpecHash == InitHash /\ [][Digest]_vars

\* reset_if_needed alone, on every AuthorPostCount row the admin form
\* (AuthorPostCountAdmin: counters and reset dates are editable) can store
\* and every current date of the window
ResetDates ==
    ((StartDate - 4)..(StartDate + 12)) \cup ((Jan1(2027) - 5)..(Jan1(2027) + 4))

InitReset ==
    /\ \E today \in ResetDates, stored \in ResetDates, n \in 1..MaxLimit :
        /\ now = today
        /\ ac = [t \in Tasks |-> IF t = 1 THEN Count(n, n, stored, stored, FALSE)
                                          ELSE NoCount]
        /\ counts = [k \in Groups \X Users |->
                        IF k = <<G1, UserA>> THEN {Count(n, n, stored, stored, FALSE)}
                                             ELSE {}]
    /\ rev \in {"userbot", "normalizer"}
    /\ msg = [t \in Tasks |-> SeqMessageA(t)]
    /\ cfg = [g \in Groups |-> Group(g, TRUE, 0, 0, 0, TRUE, TRUE)]
    /\ alive = [t \in Tasks |-> t = 1]
    /\ delEvt = [t \in Tasks |-> FALSE]
    /\ pend = {}
    /\ pc = [t \in Tasks |-> IF t = 1 THEN "quota_reset" ELSE "idle"]
    /\ grp = [t \in Tasks |-> IF t = 1 THEN {cfg[G1]} ELSE {}]
    /\ hashes = {}
    /\ rot = [g \in Groups |-> 0]
    /\ invites = [k \in Groups \X Users |-> {}]
    /\ out = [t \in Tasks |-> ""]
    /\ did = [t \in Tasks |-> IF t = 1 THEN {"passed_dup"} ELSE {}]
    /\ reposts = {}
    /\ invLog = {}
    /\ cancelled = [t \in Tasks |-> FALSE]
    /\ clock = 0
    /\ recv = [t \in Tasks |-> 0]
    /\ due = [t \in Tasks |-> 0]
    /\ snap = [t \in Tasks |-> t]
    /\ kbd = [t \in Tasks |-> <<>>]
    /\ InitAux

NextReset == \E t \in Tasks : QuotaReset(t)

SpecReset == InitReset /\ [][NextReset]_vars

---------------------------------------------------------------------------
(* OldPostsNormalization: the batch job row and the admin pages that touch *)
(* it.  No command of the repository reads or writes the row.              *)

\* an OldPostsNormalization row (last_run_at 0: NULL)
Job(total, processed, running, last_run_at) ==
    [batch_size |-> BatchSize, total_messages |-> total,
     processed_messages |-> processed, is_running |-> running,
     last_run_at |-> last_run_at]

\* a float, kept as the exact fraction num / den
Ratio(num, den) == [num |-> num, den |-> den]

ProgressPercentUncapped(job) ==
    IF job.total_messages = 0
    THEN Ratio(0, 1)
    ELSE Ratio(job.processed_messages * Hundred, job.total_messages)

\* OldPostsNormalization.progress_percent
ProgressPercent(job) ==
    IF job.total_messages = 0
    THEN Ratio(0, 1)
    ELSE LET percent == Ratio(job.processed_messages * Hundred,
                              job.total_messages)
         IN  IF percent.num < Hundred * percent.den THEN percent
                                                    ELSE Ratio(Hundred, 1)

\* NormalizerGroupAdmin.start_old_posts_normalization on the selected groups
StartOldPostsNormalization(queryset) ==
    LET old_posts(g) == IF jobs[g] = {} THEN Job(0, 0, FALSE, 0)
                                        ELSE TheOne(jobs[g])
        started == {g \in queryset : ~old_posts(g).is_running}
    IN  /\ jobs' = [g \in Groups |->
                      IF g \in started
                      THEN {[old_posts(g) EXCEPT !.is_running = TRUE,
                                                !.last_run_at = now]}
                      ELSE IF g \in queryset THEN {old_posts(g)} ELSE jobs[g]]
        /\ shown' = [page |-> "started", count |-> Cardinality(started)]
        /\ UNCHANGED <<swpc, swList, swLast, hin, hout>>
        /\ UNCHANGED <<clock, recv, due, snap, kbd>>
        /\ UNCHANGED <<now, rev, cfg, msg, alive, delEvt, pend, pc, grp, ac,
                       counts, hashes, rot, invites, out, did, reposts, invLog,
                       cancelled>>

\* the change form of OldPostsNormalizationAdmin is saved: total_messages,
\* processed_messages (validated >= 0) and is_running are editable
ChangeForm(g) ==
    /\ jobs[g] # {}
    /\ \E total \in 0..MaxCount, processed \in 0..MaxCount, running \in BOOLEAN :
        jobs' = [jobs EXCEPT ![g] = {[TheOne(jobs[g]) EXCEPT
                                        !.total_messages = total,
                                        !.processed_messages = processed,
                                        !.is_running = running]}]
    /\ shown' = [page |-> "saved", group |-> g]
    /\ UNCHANGED <<swpc, swList, swLast, hin, hout>>
    /\ UNCHANGED <<clock, recv, due, snap, kbd>>
    /\ UNCHANGED <<now, rev, cfg, msg, alive, delEvt, pend, pc, grp, ac,
                   counts, hashes, rot, invites, out, did, reposts, invLog,
                   cancelled>>

\* NormalizerGroupAdmin.custom_actions renders the job of a group
CustomActions(g) ==
    /\ shown' = IF jobs[g] # {}
                THEN LET old_posts == TheOne(jobs[g])
                     IN  [page |-> "job", group |-> g,
                          total_messages |-> old_posts.total_messages,
                          processed_messages |-> old_posts.processed_messages,
                          progress |-> ProgressPercent(old_posts),
                          status |-> IF old_posts.is_running THEN "running"
                                                             ELSE "idle"]
                ELSE [page |-> "unset", group |-> g]
    /\ UNCHANGED <<swpc, swList, swLast, hin, hout, jobs>>
    /\ UNCHANGED <<clock, recv, due, snap, kbd>>
    /\ UNCHANGED <<now, rev, cfg, msg, alive, delEvt, pend, pc, grp, ac,
                   counts, hashes, rot, invites, out, did, reposts, invLog,
                   cancelled>>

\* the admin site alone: no job stored, nothing rendered
InitBatch ==
    /\ InitTasks
    /\ rev = "userbot"
    /\ msg = [t \in Tasks |-> SeqMessageA(t)]
    /\ cfg = [g \in Groups |-> Group(g, TRUE, 0, 0, 0, TRUE, TRUE)]
    /\ swpc = "sleep"
    /\ swList = <<>>
    /\ swLast = <<>>
    /\ hin = <<>>
    /\ hout = <<>>
    /\ jobs = [g \in Groups |-> {}]
    /\ shown = <<>>

StartSelected ==
    \E queryset \in (SUBSET Groups) \ {{}} : StartOldPostsNormalization(queryset)

RenderJob == \E g \in Groups : CustomActions(g)

SaveJob == \E g \in Groups : ChangeForm(g)

NextBatch == StartSelected \/ RenderJob \/ SaveJob

\* the admin site serves the requests it receives: a submitted action is
\* carried out and a requested page is rendered.  Nothing obliges an
\* operator to edit a row by hand.
SpecBatch ==
    /\ InitBatch
    /\ [][NextBatch]_vars
    /\ WF_vars(StartSelected)
    /\ WF_vars(RenderJob)

---------------------------------------------------------------------------
(* Claims *)

Effects ==
    {"del_orig", "repost", "row_created", "row_saved", "count", "hash",
     "invite_sent", "track"}

\* C1: once a message-deleted event for a scheduled message has been handled
\* before its timer fired, the task of that message never deletes the
\* original, reposts, creates or saves an AuthorPostCount row, inserts a
\* PostHash row or sends an invite.
C1_CancelNoEffect ==
    \A t \in Tasks :
        cancelled[t] =>
            /\ did[t] \cap Effects = {}
            /\ \A r \in reposts : r.task # t
            /\ \A i \in invLog : i.task # t
            /\ pc[t] \in {"sleep", "done"}

\* a cancelled message whose timer has fired as a no-op
C1_Witness ==
    \E t \in Tasks : cancelled[t] /\ out[t] = "cancelled" /\ ~alive[t]

\* the group a running or finished task works with, its author and digest
ChatOf(t) == Msg(t).chat

SenderOf(t) == Msg(t).sender

HashOf(t) == MessageHash(rev, Msg(t))

\* posts_today as the task's limit check saw it
SeenToday(t) == ac[t].posts_today - (IF "count" \in did[t] THEN 1 ELSE 0)

\* C2: with daily limit N, two tasks of one author in one group never both
\* pass the limit check against the same stored count N-1 on the same day
\* and both repost.
C2_NoDoublePass ==
    \A t1, t2 \in Tasks :
        (/\ t1 < t2
         /\ SenderOf(t1) # NoUser
         /\ SenderOf(t1) = SenderOf(t2)
         /\ ChatOf(t1) = ChatOf(t2)
         /\ grp[t1] # {} /\ grp[t2] # {}
         /\ TheOne(grp[t1]).limit_posts_day > 0)
        => ~(/\ {"passed_quota", "repost"} \subseteq did[t1]
             /\ {"passed_quota", "repost"} \subseteq did[t2]
             /\ ac[t1].last_day_reset = ac[t2].last_day_reset
             /\ SeenToday(t1) = TheOne(grp[t1]).limit_posts_day - 1
             /\ SeenToday(t2) = TheOne(grp[t2]).limit_posts_day - 1)

\* reposts of one author in one group on one day
RepostsOn(chat, user, day) ==
    {r \in reposts : r.chat = chat /\ r.sender = user /\ r.day = day}

\* C3: with limit_posts_day = N > 0 and messages handled one after another,
\* at most N messages of one author are reposted in one group on one day and
\* the stored posts_today never exceeds N.
C3_DayLimit ==
    \A g \in Groups, u \in Users :
        cfg[g].limit_posts_day > 0 =>
            /\ Cardinality(RepostsOn(g, u, now)) <= cfg[g].limit_posts_day
            /\ \A row \in counts[<<g, u>>] :
                    row.posts_today <= cfg[g].limit_posts_day

\* C4: a message identical to one reposted in the same group within the
\* last 3 days does not get past the duplicate check.
C4_DuplicateRejected ==
    \A t \in Tasks :
        (pc[t] \notin {"idle", "done"} /\ "passed_dup" \in did[t]) =>
            ~\E r \in reposts :
                /\ r.task # t
                /\ r.chat = ChatOf(t)
                /\ r.hash = HashOf(t)
                /\ now - r.day <= HashDays

\* C5: a task whose PostHash insert is rejected by the uniqueness constraint
\* does not end in the generic "Error reposting message" handler.
C5_RejectionHandled ==
    \A t \in Tasks :
        (pc[t] = "done" /\ "insert_rejected" \in did[t]) =>
            out[t] # "repost_error"

\* C6: a task that has emitted the repost of a message with a sender ends
\* with both counters raised by one and a live PostHash row for the digest.
C6_RepostRecorded ==
    \A t \in Tasks :
        (pc[t] = "done" /\ "repost" \in did[t] /\ SenderOf(t) # NoUser) =>
            /\ "count" \in did[t]
            /\ \E row \in hashes :
                /\ row.chat = ChatOf(t)
                /\ row.hash = HashOf(t)
                /\ \E r \in reposts : r.task = t /\ r.day - row.at <= HashDays

\* C7: a PostHash row is inserted only by a task that passed the duplicate
\* check and (for a message with a sender) the quota check, deleted the
\* original and sent the repost; a task that ends dropped, cancelled,
\* not-found, duplicate- or quota-rejected, or with a failed delete or a
\* failed send has inserted none.
C7_HashOnlyAfterRepost ==
    [][/\ hashes' # hashes =>
            \E t \in Tasks :
                /\ pc[t] = "savehash"
                /\ {"passed_dup", "del_orig", "repost"} \subseteq did[t]
                /\ SenderOf(t) # NoUser => "passed_quota" \in did[t]
                /\ hashes' = hashes \cup
                      {[chat |-> ChatOf(t), hash |-> HashOf(t), at |-> now]}
       /\ \A t \in Tasks :
            (/\ pc'[t] = "done"
             /\ \/ out'[t] \in {"dropped", "cancelled", "notfound", "duplicate",
                                "quota_day", "quota_week", "delfail"}
                \/ "send_failed" \in did'[t])
            => "hash" \notin did'[t]]_vars

\* a quota-rejected task beside a stored PostHash row of an earlier repost
C7_Witness ==
    \E t \in Tasks :
        /\ out[t] = "quota_day"
        /\ hashes # {}
        /\ "hash" \notin did[t]

\* a PostHash row of the group with the digest, at most 3 days old
LiveRow(chat, h) ==
    \E row \in hashes : row.chat = chat /\ row.hash = h /\ now - row.at <= HashDays

\* C8: is_duplicate answers true exactly when a row of the same group with
\* the same digest was created within the last 3 days, and changes no table.
C8_IsDuplicate ==
    [][\A t \in Tasks :
        (pc[t] = "dup" /\ pc'[t] # "dup") =>
            /\ (pc'[t] = "dupdel") <=> LiveRow(ChatOf(t), HashOf(t))
            /\ UNCHANGED <<hashes, counts, invites>>]_vars

\* the digest is stored for this group, but more than 3 days ago, and for
\* no other reason the message was let through
C8_Witness ==
    \E t \in Tasks :
        /\ "passed_dup" \in did[t]
        /\ pc[t] # "done"
        /\ \E row \in hashes :
            row.chat = ChatOf(t) /\ row.hash = HashOf(t) /\ now - row.at > HashDays

\* C9: reset_if_needed zeroes posts_today exactly when the stored day marker
\* is before today and posts_this_week exactly when the stored week marker
\* lies in another ISO week than today, each independently of the other, and
\* leaves both markers current, so a second call resets nothing.
C9_ResetOncePerCrossing ==
    [][\A t \in Tasks :
        (pc[t] = "quota_reset" /\ pc'[t] # "quota_reset" /\ ~ac[t].fresh) =>
            LET o == ac[t]
                n == ac'[t]
                sameWeek == IsoCalendar(o.last_week_reset) = IsoCalendar(now)
            IN  /\ o.last_day_reset <= now /\ o.last_week_reset <= now
                /\ n.posts_today = IF o.last_day_reset < now THEN 0
                                                              ELSE o.posts_today
                /\ n.posts_this_week = IF sameWeek THEN o.posts_this_week ELSE 0
                /\ n.last_day_reset = now
                /\ IsoCalendar(n.last_week_reset) = IsoCalendar(now)
                /\ sameWeek => n.last_week_reset = o.last_week_reset
                /\ counts'[<<ChatOf(t), SenderOf(t)>>] = {Row(n)}]_vars

\* after a day change inside one ISO week: today's count is back to 0, the
\* week's count is kept
C9_Witness ==
    \E t \in Tasks :
        /\ pc[t] = "delete"
        /\ ac[t].posts_today = 0
        /\ ac[t].posts_this_week > 0
        /\ ac[t].last_week_reset < now
        /\ ac[t].last_day_reset = now

\* (year, week) a precedes (year, week) b
Precedes(a, b) == a[1] < b[1] \/ (a[1] = b[1] /\ a[2] < b[2])

\* C10: reset_if_needed zeroes the weekly counter and sets last_week_reset to
\* today if and only if the ISO (year, week) of the stored last_week_reset
\* precedes the ISO (year, week) of today.
C10_WeekResetIffPrecedes ==
    [][\A t \in Tasks :
        (pc[t] = "quota_reset" /\ pc'[t] # "quota_reset" /\ ~ac[t].fresh) =>
            LET o == ac[t]
                n == ac'[t]
            IN  IF Precedes(IsoCalendar(o.last_week_reset), IsoCalendar(now))
                THEN n.posts_this_week = 0 /\ n.last_week_reset = now
                ELSE /\ n.posts_this_week = o.posts_this_week
                     /\ n.last_week_reset = o.last_week_reset]_vars

\* C11: after the resets a message of a sender is quota-rejected exactly
\* when (limit_posts_day > 0 and posts_today >= limit_posts_day) or
\* (limit_posts_week > 0 and posts_this_week >= limit_posts_week); with both
\* limits 0 no message is quota-rejected.
C11_RejectedIffLimitReached ==
    [][\A t \in Tasks :
        (pc[t] = "quota_reset" /\ pc'[t] # "quota_reset") =>
            LET g == TheOne(grp[t])
                n == IF ac[t].fresh THEN ac[t] ELSE ac'[t]
                reached ==
                    \/ g.limit_posts_day > 0
                         /\ n.posts_today >= g.limit_posts_day
                    \/ g.limit_posts_week > 0
                         /\ n.posts_this_week >= g.limit_posts_week
            IN  /\ out'[t] \in {"quota_day", "quota_week"} <=> reached
                /\ (g.limit_posts_day = 0 /\ g.limit_posts_week = 0)
                      => out'[t] \notin {"quota_day", "quota_week"}]_vars

\* a week-limit rejection of a message that the disabled day limit let
\* through although the author's count of the day is positive
C11_Witness ==
    \E t \in Tasks :
        /\ out[t] = "quota_week"
        /\ TheOne(grp[t]).limit_posts_day = 0
        /\ ac[t].posts_today > 0

\* what a quota rejection must not have done
AfterRepostEffects == {"repost", "hash", "count", "invite_sent", "track"}

\* C12 (as stated): a quota-rejected message ends with no repost, no
\* PostHash insert and no counter increment, and its original has been
\* deleted by the pipeline as on the Reposted path.
C12_RejectedOriginalDeleted ==
    \A t \in Tasks :
        out[t] \in {"quota_day", "quota_week"} =>
            /\ pc[t] = "done"
            /\ did[t] \cap AfterRepostEffects = {}
            /\ "del_orig" \in did[t]

\* C12 (amended): a quota-rejected message ends with no repost, no PostHash
\* insert and no counter increment, and the pipeline leaves its original in
\* the chat, the same way for a day-limit and a week-limit rejection.
C12_RejectedOriginalKept ==
    [][\A t \in Tasks :
        (pc[t] = "quota_reset" /\ out'[t] \in {"quota_day", "quota_week"}) =>
            /\ pc'[t] = "done"
            /\ did'[t] \cap (AfterRepostEffects \cup {"del_orig"}) = {}
            /\ UNCHANGED <<alive, hashes, reposts, invites, invLog>>
            /\ \A row \in counts'[<<ChatOf(t), SenderOf(t)>>] :
                /\ row.posts_today = ResetIfNeeded(ac[t], now).posts_today
                /\ row.posts_this_week = ResetIfNeeded(ac[t], now).posts_this_week]_vars

\* a week-limit rejection whose original is still in the chat
C12_Witness ==
    \E t \in Tasks :
        /\ out[t] = "quota_week"
        /\ alive[First(t)]
        /\ "del_orig" \notin did[t]

\* C13: in run_userbot a message that passed the existence, duplicate and
\* quota checks and whose original the pipeline deleted has been reposted
\* when its task ends, unless the send itself failed.
C13_DeletedThenReposted ==
    \A t \in Tasks :
        (/\ rev = "userbot"
         /\ pc[t] = "done"
         /\ {"passed_dup", "del_orig"} \subseteq did[t]
         /\ "send_failed" \notin did[t])
        => "repost" \in did[t]

\* the intake filter's verdict on an event
Accepted(m) ==
    /\ m.super
    /\ m.chat \in DOMAIN cfg /\ cfg[m.chat].active
    /\ ~m.self
    /\ (m.text # NoneStr \/ m.kind # "none")

\* C14: an event is scheduled (run_userbot: entry in pending_messages and a
\* delay task; run_normalizer: the handler sleeps) exactly when its chat is
\* a supergroup with an active NormalizerGroup, its sender is not the
\* account itself and it has text, caption or media; every other event ends
\* in the handler and leaves no pending entry and no stored state.
C14_ScheduledIffAccepted ==
    [][\A t \in Tasks :
        (pc[t] \in {"idle", "lookup"} /\ pc'[t] \notin {"idle", "lookup"}) =>
            IF Accepted(msg[t])
            THEN /\ pc'[t] = "sleep"
                 /\ rev = "userbot" => Entry(t, cfg[msg[t].chat]) \in pend'
            ELSE /\ pc'[t] = "done" /\ out'[t] = "dropped"
                 /\ did'[t] = {}
                 /\ UNCHANGED <<pend, counts, hashes, invites, rot,
                                reposts, invLog>>]_vars

\* a message of the account itself was turned away after the group lookup,
\* with nothing stored
C14_Witness ==
    \E t \in Tasks :
        /\ msg[t].self
        /\ msg[t].super /\ cfg[msg[t].chat].active
        /\ out[t] = "dropped"
        /\ pend = {} /\ hashes = {}

\* C15: every accepted event gets a delay in delay_seconds ..
\* delay_seconds + 120, and the processing of the snapshot an event captured
\* starts no earlier than delay_seconds after that event was received, also
\* when several events have the same (chat, message) key.
C15_NotBeforeDelay ==
    [][\A t \in Tasks :
        /\ (pc[t] = "lookup" /\ pc'[t] = "sleep") =>
                LET d == cfg[msg[t].chat].delay_seconds
                IN  due'[t] - clock \in d..(d + DelaySpread)
        /\ (pc[t] = "sleep" /\ pc'[t] = "exists") =>
                clock >= recv[snap'[t]] + TheOne(grp'[t]).delay_seconds]_vars

\* C16: the first step after the timer is the existence check; when the
\* message is gone the check fails, and a failed check ends the task with
\* no delete, no repost, no AuthorPostCount change, no PostHash insert and
\* no invite.
C16_GoneMessageDropped ==
    [][\A t \in Tasks :
        /\ (pc[t] = "sleep" /\ pc'[t] \notin {"sleep", "done"}) =>
                pc'[t] = "exists" /\ did'[t] = {}
        /\ (pc[t] = "exists" /\ pc'[t] # "exists") =>
                /\ ~alive[First(t)] => pc'[t] = "done"
                /\ pc'[t] = "done" =>
                    /\ out'[t] = "notfound"
                    /\ did'[t] = {}
                    /\ UNCHANGED <<alive, counts, hashes, invites, rot,
                                   reposts, invLog>>]_vars

\* run_normalizer, which has no deleted-message handler, dropped a message
\* that was deleted during its delay
C16_Witness ==
    \E t \in Tasks :
        /\ rev = "normalizer"
        /\ out[t] = "notfound"
        /\ ~alive[First(t)]
        /\ did[t] = {}

\* no message is being handled
RepostsIn(chat) == {r \in reposts : r.chat = chat}

\* C17: the button-1 label goes round-robin through the group's rotation
\* list: in a run in which every delivered message of a group was reposted,
\* the n-th repost carries label number (n - 1) mod length of the list, and
\* after n reposts the index points at label number n mod length.
C17_RoundRobin ==
    \A c \in Groups :
        (cfg[c].buttons_count >= 1 /\ Cardinality(RepostsIn(c)) = NumTasks) =>
            /\ \A r \in RepostsIn(c) :
                    r.reply_markup = <<GetButtonText(cfg[c], r.nth - 1)>>
            /\ Quiescent =>
                    GetButtonText(cfg[c], rot[c]) = GetButtonText(cfg[c], NumTasks)

\* C18: a task whose send of the repost failed has ended there: it sent no
\* repost, inserted no PostHash row, did not increment the counters, sent
\* no invite and created no PendingInvite.
C18_SendFailureAborts ==
    \A t \in Tasks :
        "send_failed" \in did[t] =>
            /\ pc[t] = "done" /\ out[t] = "repost_error"
            /\ did[t] \cap AfterRepostEffects = {}
            /\ \A r \in reposts : r.task # t
            /\ \A i \in invLog : i.task # t

\* the failed send of a forwarded message of a sender, after its original
\* was deleted
C18_Witness ==
    \E t \in Tasks :
        /\ "send_failed" \in did[t]
        /\ "del_orig" \in did[t]
        /\ Msg(t).fwd # NoUser /\ Msg(t).sender # NoUser
        /\ invites[<<ChatOf(t), SenderOf(t)>>] = {}

\* how a delayed task ends when one of its steps fails
Failures == {"notfound", "delfail", "error", "repost_error"}

\* C19: a step at which one task ends in a failure changes nothing of any
\* other message: their position, their timer, their captured data and the
\* entries of pending_messages stay as they are; and whatever tasks have
\* failed, the handler still takes the next event.
C19_FailureIsolated ==
    [][\A t \in Tasks :
        (pc[t] # "done" /\ pc'[t] = "done" /\ out'[t] \in Failures) =>
            /\ \A u \in Tasks \ {t} :
                /\ pc'[u] = pc[u] /\ out'[u] = out[u]
                /\ grp'[u] = grp[u] /\ ac'[u] = ac[u]
                /\ due'[u] = due[u] /\ snap'[u] = snap[u]
            /\ pend' = pend
            /\ \A u \in Tasks :
                (u <= NumConcTasks /\ pc'[u] = "idle"
                    /\ \A v \in Tasks : v < u => pc'[v] # "idle")
                => (ENABLED ArriveConc(u))']_vars

\* a task ended by the AttributeError of the keyboard code while the entry
\* and the timer of another message are still pending
C19_Witness ==
    \E t, u \in Tasks :
        /\ t # u
        /\ out[t] = "error" /\ "del_orig" \in did[t]
        /\ pc[u] = "sleep"
        /\ \E e \in pend : e.ev = u

\* C20: after the repost of a forwarded message in a group with invites
\* enabled a pending PendingInvite row exists for the forward's original
\* author, and PendingInvite rows exist only for original authors of
\* forwarded content that was reposted in the group.
C20_ForwardAuthorTracked ==
    /\ \A t \in Tasks :
        (/\ out[t] = "reposted"
         /\ Msg(t).fwd # NoUser
         /\ TheOne(grp[t]).invite_enabled)
        => \E row \in invites[<<ChatOf(t), Msg(t).fwd>>] : row.status = "pending"
    /\ \A g \in Groups, u \in Users :
        invites[<<g, u>>] # {} =>
            \E r \in reposts : r.chat = g /\ msg[r.task].fwd = u

\* C21: while the group has invite_enabled false, the steps that handle the
\* forward of a reposted message (the invite step and the tracking step)
\* send no invite message and create or change no PendingInvite row.
C21_DisabledNoOp ==
    [][\A t \in Tasks :
        (/\ pc[t] \in {"invite", "track"}
         /\ Msg(t).fwd # NoUser
         /\ ~TheOne(grp[t]).invite_enabled)
        => (invLog' = invLog /\ invites' = invites)]_vars

\* C22: every invite message handed to the transport belongs to a reposted
\* message that carries a forward origin, and is addressed to that origin,
\* who is not the poster of the message.
C22_InviteToForwardAuthor ==
    \A i \in invLog :
        /\ \E r \in reposts : r.task = i.task
        /\ Msg(i.task).fwd # NoUser
        /\ i.to = Msg(i.task).fwd
        /\ i.to # Msg(i.task).sender

C22_Witness ==
    /\ \E i \in invLog : i.delivered /\ Msg(i.task).sender = UserB
    /\ \E i \in invLog : ~i.delivered
    /\ \E t \in Tasks : out[t] = "reposted" /\ Msg(t).fwd = NoUser

\* C23: a task whose invite delivery failed (the rendering of the template
\* or the send raised) keeps its repost, its PostHash row and its counter
\* increment, does not end in an error, and goes on to the tracking step,
\* which it has executed when it ends.
C23_InviteFailureNonFatal ==
    \A t \in Tasks :
        "invite_failed" \in did[t] =>
            /\ \E r \in reposts : r.task = t
            /\ \E h \in hashes : h.chat = ChatOf(t) /\ h.hash = HashOf(t)
            /\ SenderOf(t) # NoUser =>
                    /\ "count" \in did[t]
                    /\ counts[<<ChatOf(t), SenderOf(t)>>] = {Row(ac[t])}
                    /\ ac[t].posts_today >= 1
                    /\ pc[t] = "track" \/ "track" \in did[t]
            /\ pc[t] \in {"track", "done"}
            /\ out[t] \in {"", "reposted"}

C23_Witness ==
    \E t \in Tasks :
        /\ "invite_failed" \in did[t]
        /\ \E i \in invLog : i.task = t /\ ~i.delivered
        /\ "track" \in did[t]
        /\ out[t] = "reposted"

\* C24: the tracking step of a repost whose (group, user) pair already has a
\* PendingInvite row, in whatever status, leaves the whole table as it was;
\* after any tracking step the pair has exactly one row.
C24_TrackIdempotent ==
    [][\A t \in Tasks :
        (pc[t] = "track" /\ pc'[t] # "track") =>
            LET k == <<ChatOf(t), SenderOf(t)>>
            IN  /\ invites[k] # {} => invites' = invites
                /\ Cardinality(invites'[k]) = 1
                /\ \A j \in DOMAIN invites : j # k => invites'[j] = invites[j]]_vars

C24_Witness ==
    \E t \in Tasks :
        /\ "track" \in did[t]
        /\ \E row \in invites[<<ChatOf(t), SenderOf(t)>>] :
            /\ row.status = "skipped"
            /\ row.added_at < now
            /\ row.invited_at # 0

\* C25: when the invite message to a user is delivered while the user's
\* PendingInvite row of the group is pending, the row becomes invited and
\* its invited_at is set.
C25_DeliveredMarksInvited ==
    [][\A t \in Tasks :
        (pc[t] = "invite" /\ "invite_sent" \in did'[t] \ did[t]) =>
            LET k == <<ChatOf(t), Msg(t).fwd>>
            IN  \A row \in invites[k] :
                    row.status = "pending" =>
                        \E new \in invites'[k] :
                            new.status = "invited" /\ new.invited_at # 0]_vars

\* the answers with which the transport reports membership
ReportsMembership(answer) ==
    answer = "member" \/ answer = "administrator" \/ answer = "creator"

\* C26: a membership query of the sweep for a pending row makes the row
\* joined exactly when the answer reports a member, an administrator or the
\* creator of the chat; otherwise (another status, or the query raised) the
\* row is left as it was.
C26_JoinedIffMember ==
    [][(swpc = "query" /\ swList' = Tail(swList)) =>
        LET k == Head(swList).key
            answer == swLast'.answer
        IN  /\ ReportsMembership(answer) <=>
                    \E row \in invites'[k] : row.status = "joined"
            /\ ~ReportsMembership(answer) => invites'[k] = invites[k]
            /\ \A row \in invites[k] : row.status = "pending"]_vars

C26_Witness ==
    /\ swLast # <<>>
    /\ swLast.answer = "administrator"
    /\ \E row \in invites[swLast.key] : row.status = "joined"
    /\ \E row \in invites[<<G1, UserF>>] : row.status = "pending"

\* a pending row that is at least seven days old
Ripe(table, k, today) ==
    \E row \in table[k] :
        row.status = "pending" /\ today - row.added_at >= SevenDays

\* C27: the list a sweep works on holds exactly the pending rows added at
\* least 7 days ago; every membership query of a sweep is for such a row,
\* and no step of a sweep changes a row that is younger or not pending.
C27_SweepsOldPending ==
    [][/\ (swpc = "select" /\ swpc' = "query") =>
            {swList'[i].key : i \in 1..Len(swList')}
                = {k \in DOMAIN invites : Ripe(invites, k, now)}
       /\ (swpc = "query" /\ swList' = Tail(swList)) =>
            Ripe(invites, swLast'.key, now)
       /\ swpc # "sleep" =>
            \A k \in DOMAIN invites :
                ~Ripe(invites, k, now) => invites'[k] = invites[k]]_vars

C27_Witness ==
    /\ swLast # <<>>
    /\ swLast.key = <<G1, UserA>>
    /\ now = StartDate + 1
    /\ \E row \in invites[<<G1, UserB>>] : row.added_at = now

\* the status changes of the invite state machine
Transitions ==
    {<<"pending", "invited">>, <<"invited", "joined">>, <<"pending", "joined">>}

\* C28: no step of a repost or of a sweep changes a PendingInvite row that
\* is joined or skipped, and every change of a row's status made by a step
\* is pending -> invited, invited -> joined or pending -> joined.
C28_TerminalStatuses ==
    [][\A k \in DOMAIN invites :
        \A old \in invites[k] :
            /\ old.status \in {"joined", "skipped"} => invites'[k] = {old}
            /\ \A new \in invites'[k] :
                    new.status # old.status
                        => <<old.status, new.status>> \in Transitions]_vars

C28_Witness ==
    /\ swLast # <<>>
    /\ \E t \in Tasks :
        /\ "track" \in did[t]
        /\ \E row \in invites[<<ChatOf(t), SenderOf(t)>>] : row.status = "joined"

\* C29: the sweep task starts a sweep again and again, forever; it never
\* ends, whatever raised in a sweep; a query that raised is followed by the
\* queries of the rest of the list, and a started list is worked off; and
\* whatever the sweep is doing, a message task whose timer has ended, or
\* that is in the pipeline, can take its next step.
C29_SweepIndependent ==
    /\ []<>(swpc = "select")
    /\ [](swpc \in {"sleep", "select", "query", "return"})
    /\ [][(swpc = "query" /\ swList' = Tail(swList) /\ swLast'.answer = Raised)
            => (Tail(swList) # <<>> => swpc' = "query")]_vars
    /\ [](swpc = "query" => <>(swpc = "return"))
    /\ [](\A t \in Tasks :
            /\ (pc[t] = "sleep" /\ NumInFlight = 0) => ENABLED FireSeq(t)
            /\ InPipeline(t) =>
                    ENABLED (StepMessage(t) /\ pc'[t] # pc[t]))

C29_Witness ==
    /\ swpc = "query"
    /\ swLast # <<>>
    /\ swLast.answer = Raised
    /\ Len(swList) = 1
    /\ \E t \in Tasks : pc[t] = "sleep"
    /\ reposts # {}

\* None or the empty string
Blank(x) == x = None \/ x = <<>>

\* C30: when the first call is for a pure-text message (text t, media None
\* or empty) and the second for a pure-media message (text None or empty,
\* media id m), the two results are equal only if t and m are the same
\* string; and two calls whose arguments differ only in None against the
\* empty string return the same result.
C30_PureTextPureMedia ==
    hout # <<>> =>
        LET x == hin[1]
            y == hin[2]
        IN  /\ (/\ x.text # None /\ Blank(x.media)
                 /\ Blank(y.text) /\ y.media # None
                 /\ hout[1] = hout[2])
                => x.text = y.media
            /\ (/\ (x.text = y.text \/ (Blank(x.text) /\ Blank(y.text)))
                 /\ (x.media = y.media \/ (Blank(x.media) /\ Blank(y.media))))
                => hout[1] = hout[2]

\* the string a create_hash argument stands for: None counts as ''
StringOf(x) == IF x = None THEN <<>> ELSE x

\* C31: create_hash is deterministic (two calls with the same arguments
\* return the same result), and two calls whose (text, media id) pairs are
\* not the same pair of strings return different results, also when the
\* strings contain the separator '|'.
C31_DistinctPairsDistinctHash ==
    hout # <<>> =>
        LET x == hin[1]
            y == hin[2]
            same == /\ StringOf(x.text) = StringOf(y.text)
                    /\ StringOf(x.media) = StringOf(y.media)
        IN  /\ x = y => hout[1] = hout[2]
            /\ ~same => hout[1] # hout[2]

\* the running flag of a group's batch job is set
IsRunning(g) == jobs[g] # {} /\ TheOne(jobs[g]).is_running

\* C32: whenever the is_running flag of a group's OldPostsNormalization row
\* is set, it is cleared again at some later time.
C32_RunningCleared ==
    \A g \in Groups : [](IsRunning(g) => <>~IsRunning(g))

\* C33: the progress rendered for a job is 0 when total_messages is 0 and
\* otherwise the smaller of 100 and processed_messages / total_messages * 100;
\* it lies between 0 and 100, also when processed_messages exceeds
\* total_messages.
C33_ProgressPercent ==
    (shown # <<>> /\ shown.page = "job") =>
        LET p == shown.progress
            n == shown.processed_messages
            t == shown.total_messages
        IN  /\ p.den > 0
            /\ t = 0 => p.num = 0
            /\ (t # 0 /\ n <= t) => p.num * t = 100 * n * p.den
            /\ (t # 0 /\ n > t) => p.num = 100 * p.den
            /\ 0 <= p.num /\ p.num <= 100 * p.den

C33_Witness ==
    /\ shown # <<>>
    /\ shown.page = "job"
    /\ shown.total_messages > 0
    /\ shown.processed_messages > shown.total_messages
    /\ shown.progress.num = 100 * shown.progress.den

\* the pending table holds no entry of the message of event t
NoEntry(t) == {e \in pend : e.key = Key(t)} = {}

\* C34: a deletion event handled when the table holds no entry of the
\* message changes no task and no table; a task that has taken its entry
\* out of the table never ends as cancelled, its steps do not touch the
\* table, it always has a next step, and it reposts only after its own
\* delete call.
C34_LateDeletionCancelsNothing ==
    /\ [][\A t \in Tasks :
            /\ (delEvt[t] /\ ~delEvt'[t] /\ NoEntry(t))
                    => /\ pend' = pend
                       /\ pc' = pc /\ out' = out /\ did' = did
                       /\ grp' = grp /\ snap' = snap
                       /\ reposts' = reposts /\ hashes' = hashes
                       /\ counts' = counts
            /\ InPipeline(t)
                    => /\ out'[t] # "cancelled"
                       /\ pc'[t] # pc[t] => pend' = pend]_vars
    /\ [](\A t \in Tasks :
            /\ InPipeline(t) => ENABLED (Step(t) /\ pc'[t] # pc[t])
            /\ "repost" \in did[t] => "del_orig" \in did[t])

\* a task waits for its delete call although a user has deleted its message
\* after the existence check and the deletion event has been handled
C34_Witness ==
    \E t \in Tasks :
        /\ pc[t] = "delete"
        /\ ~alive[First(t)] /\ ~delEvt[First(t)]
        /\ NoEntry(t)
        /\ ~cancelled[t]

\* the tasks that have taken an entry out of the pending table
Took(t) == rev = "userbot" /\ grp[t] # {}

\* C35: every entry of the pending table has a task of its key whose timer
\* has not ended; a timer that ends takes the entry of its key out of the
\* table, or finds none and does nothing; no two tasks take the entry that
\* the same event stored; and every entry leaves the table at some time.
C35_EntryTakenOnce ==
    /\ [](\A e \in pend : \E t \in Tasks : Key(t) = e.key /\ pc[t] = "sleep")
    /\ [](\A t, u \in Tasks : (t # u /\ Took(t) /\ Took(u)) => snap[t] # snap[u])
    /\ [][\A t \in Tasks :
            /\ (pc[t] = "sleep" /\ pc'[t] = "exists")
                    => (~NoEntry(t) /\ NoEntry(t)')
            /\ (pc[t] = "sleep" /\ pc'[t] = "done")
                    => /\ NoEntry(t) /\ pend' = pend
                       /\ out'[t] = "cancelled" /\ did' = did
                       /\ reposts' = reposts /\ hashes' = hashes
                       /\ counts' = counts]_vars
    /\ \A v \in Tasks :
            []((\E e \in pend : e.ev = v) => <>(\A e \in pend : e.ev # v))

\* two timers were set for one key and no deletion event was handled: one
\* task took the entry, the other found none
C35_Witness ==
    \E t, u \in Tasks :
        /\ t # u /\ Key(t) = Key(u)
        /\ Took(t) /\ "repost" \in did[t]
        /\ out[u] = "cancelled" /\ ~cancelled[u] /\ ~cancelled[t]
        /\ alive[First(t)] = FALSE /\ pend = {}

\* C36: a repost is emitted only by a task whose delete call for the
\* original has returned without error; a task whose delete call failed
\* ends at that step, which changes no repost, no PostHash row and no
\* AuthorPostCount row, and it has sent no repost, inserted no PostHash row
\* and incremented no counter.
C36_RepostAfterDelete ==
    /\ [][/\ \A r \in reposts' \ reposts :
                /\ pc[r.task] = "send"
                /\ "del_orig" \in did[r.task]
                /\ ~alive[First(r.task)]
           /\ \A t \in Tasks :
                (out[t] # "delfail" /\ out'[t] = "delfail")
                    => /\ pc[t] = "delete" /\ pc'[t] = "done"
                       /\ reposts' = reposts /\ hashes' = hashes
                       /\ counts' = counts /\ alive' = alive
                       /\ invites' = invites /\ rot' = rot]_vars
    /\ [](\A t \in Tasks :
            out[t] = "delfail"
                => /\ pc[t] = "done"
                   /\ did[t] \cap {"del_orig", "repost", "hash", "count",
                                    "invite_sent", "track"} = {})

\* a delete call failed after an earlier message had been reposted and
\* the author's row had been saved by the limit check
C36_Witness ==
    \E t \in Tasks :
        /\ out[t] = "delfail"
        /\ alive[First(t)]
        /\ "row_saved" \in did[t]
        /\ reposts # {}

\* C37: a message of any media kind ends as a duplicate only if an earlier
\* message of the group had the same text and the same media file; two
\* messages without text that carry different files are no duplicates of
\* each other.
C37_DifferentMediaNotDuplicate ==
    \A t \in Tasks :
        out[t] = "duplicate" =>
            \E u \in Tasks :
                /\ u < t
                /\ msg[u].chat = Msg(t).chat
                /\ msg[u].text = Msg(t).text
                /\ msg[u].fid = Msg(t).fid

\* C38: a task whose message has no sender is never rejected by a limit,
\* never holds or writes an AuthorPostCount row, builds no keyboard and
\* creates no PendingInvite; none of its steps changes the AuthorPostCount
\* table, the rotation index or the PendingInvite table; it is turned away
\* as a duplicate exactly when is_duplicate says so, and when it ends as
\* reposted its fingerprint is stored.
C38_NoSenderBypassesQuota ==
    /\ [](\A t \in Tasks :
            (pc[t] # "idle" /\ Msg(t).sender = NoUser)
                => /\ out[t] \notin {"quota_day", "quota_week"}
                   /\ pc[t] \notin {"quota_get", "quota_reset", "savecount",
                                     "track"}
                   /\ did[t] \cap {"row_created", "row_saved", "count",
                                    "track"} = {}
                   /\ ac[t] = NoCount
                   /\ kbd[t] = <<>>
                   /\ \A r \in reposts : r.task = t => r.reply_markup = <<>>
                   /\ out[t] = "reposted"
                        => /\ "hash" \in did[t]
                           /\ \E row \in hashes :
                                /\ row.chat = Msg(t).chat
                                /\ row.hash = MessageHash(rev, Msg(t))
                                /\ row.at <= now)
    /\ [][\A t \in Tasks :
            (Msg(t).sender = NoUser /\ pc[t] # "idle" /\ pc'[t] # pc[t])
                => /\ counts' = counts /\ rot' = rot /\ invites' = invites
                   /\ pc[t] = "dup"
                        => (pc'[t] = "dupdel"
                                <=> IsDuplicate(hashes, Msg(t).chat,
                                                MessageHash(rev, Msg(t)), now))
                   /\ pc[t] = "dup" /\ pc'[t] # "dupdel" => pc'[t] = "delete"]_vars

\* with a button and a daily limit configured, a channel post was reposted
\* and the same post, sent again, is being turned away as a duplicate
C38_Witness ==
    \E t \in Tasks :
        /\ Msg(t).sender = NoUser
        /\ pc[t] = "dupdel"
        /\ cfg[G1].buttons_count = 1 /\ cfg[G1].limit_posts_day = 1
        /\ \E r \in reposts : r.sender = NoUser /\ r.reply_markup = <<>>
        /\ rot[G1] = 0

\* C39: the entry stored at intake holds the configuration read at intake;
\* the task whose timer ends takes its configuration and its message from
\* that entry; a saved change of the configuration touches no entry and no
\* task; a task keeps its configuration to its end, is rejected by the
\* daily limit exactly when the limit it captured is reached, and is never
\* dropped because the group was deactivated meanwhile.
C39_CapturedAtIntake ==
    [][\A t \in Tasks :
        /\ (pc[t] = "lookup" /\ pc'[t] = "sleep")
                => IF rev = "userbot"
                   THEN \E e \in pend' :
                            /\ e.key = Key(t) /\ e.ev = t
                            /\ e.group = cfg[msg[t].chat]
                   ELSE grp'[t] = {cfg[msg[t].chat]}
        /\ (pc[t] = "sleep" /\ pc'[t] = "exists")
                => IF rev = "userbot"
                   THEN \E e \in pend :
                            /\ e.key = Key(t)
                            /\ grp'[t] = {e.group}
                            /\ snap'[t] = e.ev
                   ELSE grp'[t] = grp[t] /\ snap'[t] = snap[t]
        /\ InPipeline(t) => (grp'[t] = grp[t] /\ out'[t] # "dropped")
        /\ cfg' # cfg => (pend' = pend /\ grp' = grp /\ pc' = pc /\ out' = out)
        /\ (pc[t] = "quota_reset" /\ pc'[t] # pc[t] /\ ~ac[t].fresh)
                => LET captured == TheOne(grp[t])
                   IN  out'[t] = "quota_day"
                        <=> /\ captured.limit_posts_day > 0
                            /\ ac'[t].posts_today >= captured.limit_posts_day]_vars

\* a message is reposted although its group was deactivated and given a
\* daily limit, already reached by the author, while the message waited
C39_Witness ==
    \E t \in Tasks :
        /\ pc[t] = "savehash" /\ "repost" \in did[t]
        /\ TheOne(grp[t]).active /\ TheOne(grp[t]).limit_posts_day = 0
        /\ ~cfg[G1].active /\ cfg[G1].limit_posts_day = 1
        /\ ac[t].posts_today >= 1

\* the other command
Other(r) == IF r = "userbot" THEN "normalizer" ELSE "userbot"

\* C40: at each message the command that runs decides as the other command
\* would on the same stored rows: it turns the message away as a duplicate
\* exactly when the other command would, and the PostHash row it inserts is
\* the row the other command would insert.
C40_RevisionsAgree ==
    [][\A t \in Tasks :
        /\ (pc[t] = "dup" /\ pc'[t] # "dup")
                => (pc'[t] = "dupdel"
                        <=> IsDuplicate(hashes, Msg(t).chat,
                                        MessageHash(Other(rev), Msg(t)), now))
        /\ (pc[t] = "savehash" /\ pc'[t] # "savehash")
                => \A row \in hashes' \ hashes :
                        row.hash = MessageHash(Other(rev), Msg(t))]_vars

====
